---- MODULE Spec2Model ----
(***************************************************************************)
(* Model of the text-normalization and sectioning pipeline of              *)
(* playbymail/tndocx: the byte scrubbers (ScrubEOL, ScrubBadUTF8), the     *)
(* space compressor (CompressSpaces), the line classifier (Is...), the     *)
(* line filter (RemoveNonMappingLines), the section splitter               *)
(* (SectionInput), the line scrubbers (scrub...Line, scrubStepResults),    *)
(* the entry points (ParseText, ParseDocx, ParseSections) and the header   *)
(* parser (parseElementHeader).                                            *)
(*                                                                         *)
(* A byte buffer is a sequence of integers 0..255.  The functions of the   *)
(* package are pure; each is an operator that follows the loop of the      *)
(* source (the loop's locals are the operator's parameters).  A caller     *)
(* invokes one function on an input drawn from a bounded set; the call     *)
(* leaves its argument and its result in the variables of their types.     *)
(* ScrubBadUTF8 and scrubStepResults are modelled one loop iteration per   *)
(* step: the first because its termination is in question, the second      *)
(* because it writes into its argument as it goes.                         *)
(***************************************************************************)
EXTENDS Integers, Sequences, FiniteSets, TLC

VARIABLES
    pc,      \* "idle": no call made; "loop": inside the loop of ScrubBadUTF8;
             \* "results", "directions", "units": at the head of the loop of
             \* scrubStepResults over the results, over a list of direction
             \* codes, over a list of unit IDs;
             \* "done": the call returned; "panic": the call panicked
    fn,      \* name of the function called
    arg,     \* the argument of the call, when it is a byte buffer
    ret,     \* the value returned, when it is a byte buffer
    input,   \* ScrubBadUTF8: the local slice input (the bytes not yet consumed)
    output,  \* ScrubBadUTF8: the contents of the local buffer output
    argLines,   \* RemoveNonMappingLines: the argument, a sequence of lines
    retLines,   \* RemoveNonMappingLines: the sequence of lines returned
    retSections,   \* SectionInput: the sequence of sections returned
    holds,   \* the line classifier: the predicates that returned true for arg
    field,   \* the line classifier: the section field SectionInput puts arg in
    err,     \* the entry points: the error returned
    calls,   \* the entry points: the functions called during the call, in order
    errs,    \* the entry points: the errors the calls inside returned, in order
    extracted,  \* ParseDocx: the text docx.ReadBuffer returned for the container
    lineBuf,    \* scrubStepResults: the bytes of line, which the loop rewrites
    stepPos,    \* scrubStepResults: the index in line where the slice step begins
    node        \* parseElementHeader: the node returned

vars == <<pc, fn, arg, ret, input, output, argLines, retLines, retSections, holds, field,
          err, calls, errs, extracted, lineBuf, stepPos, node>>

(***************************************************************************)
(* Bounds of the model.                                                    *)
(***************************************************************************)
MaxLen == 4        \* longest buffer given to CompressSpaces
MaxEol == 5        \* longest buffer given to ScrubEOL
MaxUtf == 3        \* longest buffer given to ScrubBadUTF8
MaxOut == 6        \* ScrubBadUTF8: bytes of the output buffer the model keeps
MaxTokens == 3     \* longest line, in tokens, given to the line predicates
MaxLines == 3      \* most lines given to RemoveNonMappingLines and SectionInput
MaxUnits == 3      \* most units of a report made of headers and status lines
MaxPieces == 3     \* most pieces in the payload of a line given to ParseText
MaxScrub == 3      \* most pieces in a line given to a line scrubber
MaxFields == 5     \* most comma-separated fields of a header given to parseElementHeader

(***************************************************************************)
(* Bytes.  Printable ASCII is written as one-character strings and turned  *)
(* into byte values by Ord; B turns a tuple of characters into a buffer.   *)
(* (Byte 96 is spelled out: a string cannot hold the grave accent.)        *)
(***************************************************************************)
Printable ==
    << " ", "!", "\"", "#", "$", "%", "&", "'", "(", ")", "*", "+", ",", "-", ".", "/",
       "0", "1", "2", "3", "4", "5", "6", "7", "8", "9", ":", ";", "<", "=", ">", "?",
       "@", "A", "B", "C", "D", "E", "F", "G", "H", "I", "J", "K", "L", "M", "N", "O",
       "P", "Q", "R", "S", "T", "U", "V", "W", "X", "Y", "Z", "[", "\\", "]", "^", "_",
       "grave", "a", "b", "c", "d", "e", "f", "g", "h", "i", "j", "k", "l", "m", "n", "o",
       "p", "q", "r", "s", "t", "u", "v", "w", "x", "y", "z", "{", "|", "}", "~" >>

OrdTable ==
    [c \in {Printable[i] : i \in 1..Len(Printable)} |->
        31 + (CHOOSE i \in 1..Len(Printable) : Printable[i] = c)]

Ord(c) == OrdTable[c]

B(chars) == [i \in 1..Len(chars) |-> Ord(chars[i])]

TAB == 9
LF == 10
CR == 13
SP == Ord(" ")

\* all the buffers of at most n bytes over the alphabet
Buffers(alphabet, n) == UNION {[1..k -> alphabet] : k \in 0..n}

(***************************************************************************)
(* CompressSpaces                                                          *)
(***************************************************************************)
\* the lookup table mutated: init() leaves the colon out
isSpaceDelimiterNoColon(ch) ==
    ch \in {LF, Ord(","), Ord("("), Ord(")"), Ord("\\")}

\* the lookup table filled by init()
isSpaceDelimiter(ch) ==
    ch \in {LF, Ord(","), Ord("("), Ord(")"), Ord("\\"), Ord(":")}

\* the inner loop mutated: the input advances by one byte, not past the run
SkipSpacesOnce(s) == Tail(s)

\* the inner loop: advance input to the end of the run of spaces
RECURSIVE SkipSpaces(_)
SkipSpaces(s) ==
    IF Len(s) # 0 /\ (s[1] = SP \/ s[1] = TAB) THEN SkipSpaces(Tail(s)) ELSE s

\* the outer loop mutated: a run that is kept is written as its first byte,
\* space or tab, not as a space
RECURSIVE CompressSpacesLoopFirstByte(_, _, _)
CompressSpacesLoopFirstByte(in, out, prevCharWasDelimiter) ==
    IF Len(in) = 0 THEN out
    ELSE IF in[1] = SP \/ in[1] = TAB
    THEN LET rest == SkipSpaces(in)
             nextCharIsDelimiter == Len(rest) = 0 \/ isSpaceDelimiter(rest[1])
         IN  IF prevCharWasDelimiter \/ nextCharIsDelimiter
             THEN CompressSpacesLoopFirstByte(rest, out, prevCharWasDelimiter)
             ELSE CompressSpacesLoopFirstByte(rest, Append(out, in[1]), prevCharWasDelimiter)
    ELSE CompressSpacesLoopFirstByte(Tail(in), Append(out, in[1]), isSpaceDelimiter(in[1]))

\* the outer loop; in, out and prevCharWasDelimiter are its locals
RECURSIVE CompressSpacesLoop(_, _, _)
CompressSpacesLoop(in, out, prevCharWasDelimiter) ==
    IF Len(in) = 0 THEN out
    ELSE IF in[1] = SP \/ in[1] = TAB
    THEN LET rest == SkipSpaces(in)
             nextCharIsDelimiter == Len(rest) = 0 \/ isSpaceDelimiter(rest[1])
         IN  IF prevCharWasDelimiter \/ nextCharIsDelimiter
             THEN CompressSpacesLoop(rest, out, prevCharWasDelimiter)
             ELSE CompressSpacesLoop(rest, Append(out, SP), prevCharWasDelimiter)
    ELSE CompressSpacesLoop(Tail(in), Append(out, in[1]), isSpaceDelimiter(in[1]))

CompressSpaces(in) ==
    IF Len(in) = 0 THEN in ELSE CompressSpacesLoop(in, <<>>, FALSE)

\* inputs of CompressSpaces: spaces, tabs, the six delimiters and two letters
SpaceAlphabet ==
    {SP, TAB, LF, Ord(","), Ord("("), Ord(")"), Ord("\\"), Ord(":"), Ord("a"), Ord("b")}

CallCompressSpaces ==
    /\ pc = "idle"
    /\ \E x \in Buffers(SpaceAlphabet, MaxLen) :
          /\ arg' = x
          /\ ret' = CompressSpaces(x)
    /\ fn' = "CompressSpaces"
    /\ pc' = "done"
    /\ UNCHANGED <<input, output, argLines, retLines, retSections, holds, field, err, calls, errs, extracted, lineBuf, stepPos, node>>

(***************************************************************************)
(* ScrubEOL                                                                *)
(***************************************************************************)
\* the loop mutated: the LF after a CR is not consumed with it
RECURSIVE ScrubEOLLoopKeepsLF(_, _)
ScrubEOLLoopKeepsLF(in, out) ==
    IF Len(in) = 0 THEN out
    ELSE IF in[1] = CR
    THEN ScrubEOLLoopKeepsLF(Tail(in), Append(out, LF))
    ELSE ScrubEOLLoopKeepsLF(Tail(in), Append(out, in[1]))

\* the loop; in and out are its locals input and output
RECURSIVE ScrubEOLLoop(_, _)
ScrubEOLLoop(in, out) ==
    IF Len(in) = 0 THEN out
    ELSE IF in[1] = CR
    THEN LET afterCR == Tail(in)
             afterLF == IF Len(afterCR) # 0 /\ afterCR[1] = LF
                        THEN Tail(afterCR) ELSE afterCR
         IN  ScrubEOLLoop(afterLF, Append(out, LF))
    ELSE ScrubEOLLoop(Tail(in), Append(out, in[1]))

ScrubEOL(in) ==
    IF Len(in) = 0 THEN in ELSE ScrubEOLLoop(in, <<>>)

\* inputs of ScrubEOL: the two line-ending bytes and two letters
EolAlphabet == {CR, LF, Ord("a"), Ord("b")}

CallScrubEOL ==
    /\ pc = "idle"
    /\ \E x \in Buffers(EolAlphabet, MaxEol) :
          /\ arg' = x
          /\ ret' = ScrubEOL(x)
    /\ fn' = "ScrubEOL"
    /\ pc' = "done"
    /\ UNCHANGED <<input, output, argLines, retLines, retSections, holds, field, err, calls, errs, extracted, lineBuf, stepPos, node>>

(***************************************************************************)
(* ScrubBadUTF8                                                            *)
(***************************************************************************)
RuneError == 65533                  \* utf8.RuneError, U+FFFD
runeErrorByte == <<239, 191, 189>>  \* []byte(string(utf8.RuneError))

\* utf8.DecodeRune: the first rune of p and its width in bytes.  An invalid
\* or short encoding decodes as (RuneError, 1), an empty p as (RuneError, 0);
\* the encoding EF BF BD of U+FFFD itself decodes as (RuneError, 3).
Continuation(b) == 128 <= b /\ b <= 191

\* the size of the encoding that first byte p0 starts, 0 if it starts none
FirstSize(p0) ==
    IF 194 <= p0 /\ p0 <= 223 THEN 2
    ELSE IF 224 <= p0 /\ p0 <= 239 THEN 3
    ELSE IF 240 <= p0 /\ p0 <= 244 THEN 4
    ELSE 0

\* the range accepted for the second byte after first byte p0
AcceptLo(p0) == IF p0 = 224 THEN 160 ELSE IF p0 = 240 THEN 144 ELSE 128
AcceptHi(p0) == IF p0 = 237 THEN 159 ELSE IF p0 = 244 THEN 143 ELSE 191

DecodeRune(p) ==
    IF Len(p) = 0 THEN [r |-> RuneError, w |-> 0]
    ELSE IF p[1] < 128 THEN [r |-> p[1], w |-> 1]
    ELSE LET sz == FirstSize(p[1])
         IN  IF sz = 0 \/ Len(p) < sz THEN [r |-> RuneError, w |-> 1]
             ELSE IF p[2] < AcceptLo(p[1]) \/ AcceptHi(p[1]) < p[2]
             THEN [r |-> RuneError, w |-> 1]
             ELSE IF sz = 2
             THEN [r |-> (p[1] % 32) * 64 + (p[2] % 64), w |-> 2]
             ELSE IF ~Continuation(p[3]) THEN [r |-> RuneError, w |-> 1]
             ELSE IF sz = 3
             THEN [r |-> (p[1] % 16) * 4096 + (p[2] % 64) * 64 + (p[3] % 64), w |-> 3]
             ELSE IF ~Continuation(p[4]) THEN [r |-> RuneError, w |-> 1]
             ELSE [r |-> (p[1] % 8) * 262144 + (p[2] % 64) * 4096
                            + (p[3] % 64) * 64 + (p[4] % 64), w |-> 4]

\* inputs of ScrubBadUTF8: an ASCII letter, the encodings C3 A9 (U+00E9),
\* E2 82 AC (U+20AC) and EF BF BD (U+FFFD), and FF, which starts no encoding
Utf8Alphabet == {65, 195, 169, 226, 130, 172, 239, 191, 189, 255}

\* func ScrubBadUTF8(input []byte): entry; the output buffer is created empty
CallScrubBadUTF8 ==
    /\ pc = "idle"
    /\ \E x \in Buffers(Utf8Alphabet, MaxUtf) :
          /\ arg' = x
          /\ input' = x
    /\ output' = <<>>
    /\ fn' = "ScrubBadUTF8"
    /\ pc' = "loop"
    /\ UNCHANGED <<ret, argLines, retLines, retSections, holds, field, err, calls, errs, extracted, lineBuf, stepPos, node>>

\* one iteration of the loop that decodes a rune other than RuneError:
\* its bytes are written and the input advances past them
ScrubBadUTF8Copy ==
    /\ pc = "loop"
    /\ fn = "ScrubBadUTF8"
    /\ Len(input) # 0
    /\ LET d == DecodeRune(input)
       IN  /\ d.r # RuneError
           /\ output' = output \o SubSeq(input, 1, d.w)
           /\ input' = SubSeq(input, d.w + 1, Len(input))
    /\ UNCHANGED <<pc, fn, arg, ret, argLines, retLines, retSections, holds, field, err, calls, errs, extracted, lineBuf, stepPos, node>>

\* one iteration of the loop that decodes RuneError: the replacement is
\* written and the loop continues with the input where it was
ScrubBadUTF8Replace ==
    /\ pc = "loop"
    /\ fn = "ScrubBadUTF8"
    /\ Len(input) # 0
    /\ DecodeRune(input).r = RuneError
    /\ Len(output) + Len(runeErrorByte) <= MaxOut
    /\ output' = output \o runeErrorByte
    /\ UNCHANGED <<pc, fn, arg, ret, input, argLines, retLines, retSections, holds, field, err, calls, errs, extracted, lineBuf, stepPos, node>>

\* the same iteration when the buffer cannot grow any more: output.Write
\* panics (bytes.ErrTooLarge).  MaxOut stands for the memory there is.
ScrubBadUTF8TooLarge ==
    /\ pc = "loop"
    /\ fn = "ScrubBadUTF8"
    /\ Len(input) # 0
    /\ DecodeRune(input).r = RuneError
    /\ Len(output) + Len(runeErrorByte) > MaxOut
    /\ pc' = "panic"
    /\ UNCHANGED <<fn, arg, ret, input, output, argLines, retLines, retSections, holds, field, err, calls, errs, extracted, lineBuf, stepPos, node>>

\* the loop ends when the input is empty: return output.Bytes()
ScrubBadUTF8Return ==
    /\ pc = "loop"
    /\ fn = "ScrubBadUTF8"
    /\ Len(input) = 0
    /\ ret' = output
    /\ pc' = "done"
    /\ UNCHANGED <<fn, arg, input, output, argLines, retLines, retSections, holds, field, err, calls, errs, extracted, lineBuf, stepPos, node>>

(***************************************************************************)
(* Regular expressions.  Every pattern of the line classifier is anchored  *)
(* at the start of the line, so a pattern is a sequence of atoms matched   *)
(* left to right: Lit matches one of some byte strings, Rep matches min to *)
(* max bytes of a class.  MatchEnds is the set of positions where a match  *)
(* of the pattern that starts at a position of starts can end; the pattern *)
(* matches the line when the set is not empty.  The patterns of the line   *)
(* scrubbers are not anchored; they add the atom WordBoundary.             *)
(***************************************************************************)
Lit(alts) == [kind |-> "lit", alts |-> alts]
Rep(class, min, max) == [kind |-> "rep", class |-> class, min |-> min, max |-> max]
Unbounded == -1       \* the max of a + or *

Digit == 48..57       \* \d

\* \b: the empty string between a word byte and a byte that is none, the ends
\* of the text being bytes that are none
WordBoundary == [kind |-> "boundary"]
WordBytes == Digit \cup (65..90) \cup (97..122) \cup {95}
IsWordAt(s, j) == j \in 1..Len(s) /\ s[j] \in WordBytes

AtomEnds(s, starts, atom) ==
    IF atom.kind = "lit"
    THEN {pa[1] + Len(pa[2]) :
            pa \in {x \in starts \X atom.alts :
                      /\ x[1] + Len(x[2]) - 1 <= Len(s)
                      /\ SubSeq(s, x[1], x[1] + Len(x[2]) - 1) = x[2]}}
    ELSE IF atom.kind = "boundary"
    THEN {p \in starts : IsWordAt(s, p - 1) # IsWordAt(s, p)}
    ELSE LET most == IF atom.max = Unbounded THEN Len(s) ELSE atom.max
         IN  {pk[1] + pk[2] :
                pk \in {x \in starts \X (atom.min..most) :
                          /\ x[1] + x[2] - 1 <= Len(s)
                          /\ \A j \in x[1]..(x[1] + x[2] - 1) : s[j] \in atom.class}}

RECURSIVE MatchEnds(_, _, _)
MatchEnds(s, starts, re) ==
    IF Len(re) = 0 THEN starts
    ELSE MatchEnds(s, AtomEnds(s, starts, Head(re)), Tail(re))

\* rx.Match(line), rx a pattern that begins with ^
Match(re, line) == MatchEnds(line, {1}, re) # {}

\* bytes.HasPrefix(s, prefix)
HasPrefix(s, prefix) ==
    Len(s) >= Len(prefix) /\ SubSeq(s, 1, Len(prefix)) = prefix

(***************************************************************************)
(* The line classifier                                                     *)
(***************************************************************************)
\* ^courier \d{4}c\d,
rxCourierHeader == <<Lit({B(<<"c", "o", "u", "r", "i", "e", "r", " ">>)}), Rep(Digit, 4, 4), Lit({B(<<"c">>)}), Rep(Digit, 1, 1), Lit({B(<<",">>)})>>
\* ^element \d{4}e\d,
rxElementHeader == <<Lit({B(<<"e", "l", "e", "m", "e", "n", "t", " ">>)}), Rep(Digit, 4, 4), Lit({B(<<"e">>)}), Rep(Digit, 1, 1), Lit({B(<<",">>)})>>
\* ^fleet \d{4}f\d,
rxFleetHeader == <<Lit({B(<<"f", "l", "e", "e", "t", " ">>)}), Rep(Digit, 4, 4), Lit({B(<<"f">>)}), Rep(Digit, 1, 1), Lit({B(<<",">>)})>>
\* ^garrison \d{4}g\d,
rxGarrisonHeader == <<Lit({B(<<"g", "a", "r", "r", "i", "s", "o", "n", " ">>)}), Rep(Digit, 4, 4), Lit({B(<<"g">>)}), Rep(Digit, 1, 1), Lit({B(<<",">>)})>>
\* ^tribe \d{4},
rxTribeHeader == <<Lit({B(<<"t", "r", "i", "b", "e", " ">>)}), Rep(Digit, 4, 4), Lit({B(<<",">>)})>>

\* ^current turn \d{3,4}-\d{1,2}\(#\d+\),
rxTurnHeader ==
    <<Lit({B(<<"c", "u", "r", "r", "e", "n", "t", " ", "t", "u", "r", "n", " ">>)}), Rep(Digit, 3, 4), Lit({B(<<"-">>)}), Rep(Digit, 1, 2),
      Lit({B(<<"(", "#">>)}), Rep(Digit, 1, Unbounded), Lit({B(<<")", ",">>)})>>

\* ^(calm|mild|strong|gale) (ne|se|sw|nw|n|s) fleet movement:
rxFleetMovement ==
    <<Lit({B(<<"c", "a", "l", "m">>), B(<<"m", "i", "l", "d">>), B(<<"s", "t", "r", "o", "n", "g">>), B(<<"g", "a", "l", "e">>)}), Lit({B(<<" ">>)}),
      Lit({B(<<"n", "e">>), B(<<"s", "e">>), B(<<"s", "w">>), B(<<"n", "w">>), B(<<"n">>), B(<<"s">>)}), Lit({B(<<" ", "f", "l", "e", "e", "t", " ", "m", "o", "v", "e", "m", "e", "n", "t", ":">>)})>>
\* ^scout [1-8]:
rxScoutLine == <<Lit({B(<<"s", "c", "o", "u", "t", " ">>)}), Rep(49..56, 1, 1), Lit({B(<<":">>)})>>

\* ^\d{4}c\d status:
rxCourierStatus == <<Rep(Digit, 4, 4), Lit({B(<<"c">>)}), Rep(Digit, 1, 1), Lit({B(<<" ", "s", "t", "a", "t", "u", "s", ":">>)})>>
\* ^\d{4}e\d status:
rxElementStatus == <<Rep(Digit, 4, 4), Lit({B(<<"e">>)}), Rep(Digit, 1, 1), Lit({B(<<" ", "s", "t", "a", "t", "u", "s", ":">>)})>>
\* ^\d{4}f\d status:
rxFleetStatus == <<Rep(Digit, 4, 4), Lit({B(<<"f">>)}), Rep(Digit, 1, 1), Lit({B(<<" ", "s", "t", "a", "t", "u", "s", ":">>)})>>
\* ^\d{4}g\d status:
rxGarrisonStatus == <<Rep(Digit, 4, 4), Lit({B(<<"g">>)}), Rep(Digit, 1, 1), Lit({B(<<" ", "s", "t", "a", "t", "u", "s", ":">>)})>>
\* ^\d{4} status:
rxTribeStatus == <<Rep(Digit, 4, 4), Lit({B(<<" ", "s", "t", "a", "t", "u", "s", ":">>)})>>

IsFleetMovement(line) == Match(rxFleetMovement, line)

IsScoutLine(line) == Match(rxScoutLine, line)

prefixTribeFollows == B(<<"t", "r", "i", "b", "e", " ", "f", "o", "l", "l", "o", "w", "s", " ">>)
IsTribeFollows(line) == HasPrefix(line, prefixTribeFollows)

prefixTribeGoesTo == B(<<"t", "r", "i", "b", "e", " ", "g", "o", "e", "s", " ", "t", "o", " ">>)
IsTribeGoesTo(line) == HasPrefix(line, prefixTribeGoesTo)

\* IsTribeMovement mutated: the prefix tested stops after "tribe "
prefixTribe == B(<<"t", "r", "i", "b", "e", " ">>)
IsTribeMovementShortPrefix(line) == HasPrefix(line, prefixTribe)

prefixTribeMovement == B(<<"t", "r", "i", "b", "e", " ", "m", "o", "v", "e", "m", "e", "n", "t", ":">>)
IsTribeMovement(line) == HasPrefix(line, prefixTribeMovement)

IsMovementLine(line) ==
    \/ IsTribeMovement(line)
    \/ IsTribeFollows(line)
    \/ IsTribeGoesTo(line)
    \/ IsScoutLine(line)
    \/ IsFleetMovement(line)

IsTurnHeader(line) == Match(rxTurnHeader, line)

IsUnitHeader(line) ==
    \/ Match(rxTribeHeader, line)
    \/ Match(rxCourierHeader, line)
    \/ Match(rxElementHeader, line)
    \/ Match(rxFleetHeader, line)
    \/ Match(rxGarrisonHeader, line)

IsUnitStatus(line) ==
    \/ Match(rxTribeStatus, line)
    \/ Match(rxCourierStatus, line)
    \/ Match(rxElementStatus, line)
    \/ Match(rxFleetStatus, line)
    \/ Match(rxGarrisonStatus, line)

\* the field of the current section that SectionInput assigns the line to:
\* the first test of its else-if chain that the line passes
SectionField(line) ==
    IF Len(line) = 0 THEN "none"
    ELSE IF IsUnitHeader(line) THEN "Header"
    ELSE IF IsFleetMovement(line) THEN "Fleet"
    ELSE IF IsTribeFollows(line) THEN "Follows"
    ELSE IF IsTribeGoesTo(line) THEN "GoesTo"
    ELSE IF IsTribeMovement(line) THEN "Movement"
    ELSE IF IsScoutLine(line) THEN "Scouts"
    ELSE IF IsTurnHeader(line) THEN "Turn"
    ELSE IF IsUnitStatus(line) THEN "Status"
    ELSE "none"

\* the pieces the lines given to the classifier are put together from
Tokens ==
    { B(<<"t", "r", "i", "b", "e", " ">>), B(<<"c", "o", "u", "r", "i", "e", "r", " ">>), B(<<"f", "l", "e", "e", "t", " ">>),
      B(<<"0", "9", "8", "7">>), B(<<"0", "9", "8", "7", "c", "1">>), B(<<"0", "9", "8", "7", "f", "1">>), B(<<"0", "9", "8", "7", "g", "1">>), B(<<",">>), B(<<":">>),
      B(<<"c", "u", "r", "r", "e", "n", "t", " ", "t", "u", "r", "n", " ">>), B(<<"8", "9", "9", "-", "1", "2", "(", "#", "1", ")">>),
      B(<<"m", "o", "v", "e", "m", "e", "n", "t", ":">>), B(<<"f", "o", "l", "l", "o", "w", "s", " ">>), B(<<"g", "o", "e", "s", " ", "t", "o", " ">>),
      B(<<"c", "a", "l", "m", " ">>), B(<<"n", "e", " ">>), B(<<"f", "l", "e", "e", "t", " ", "m", "o", "v", "e", "m", "e", "n", "t", ":">>),
      B(<<"s", "c", "o", "u", "t", " ">>), B(<<"1">>), B(<<"9">>), B(<<" ", "s", "t", "a", "t", "u", "s", ":">>) }

RECURSIVE Flatten(_)
Flatten(ss) == IF Len(ss) = 0 THEN <<>> ELSE Head(ss) \o Flatten(Tail(ss))

\* the names of the eight predicates that return true for the line
Holding(line) ==
    {p \in {"IsUnitHeader"} : IsUnitHeader(line)}
        \cup {p \in {"IsTurnHeader"} : IsTurnHeader(line)}
        \cup {p \in {"IsTribeMovement"} : IsTribeMovement(line)}
        \cup {p \in {"IsTribeFollows"} : IsTribeFollows(line)}
        \cup {p \in {"IsTribeGoesTo"} : IsTribeGoesTo(line)}
        \cup {p \in {"IsFleetMovement"} : IsFleetMovement(line)}
        \cup {p \in {"IsScoutLine"} : IsScoutLine(line)}
        \cup {p \in {"IsUnitStatus"} : IsUnitStatus(line)}

\* a caller classifies one line, put together from at most MaxTokens tokens
CallClassify ==
    /\ pc = "idle"
    /\ \E ts \in Buffers(Tokens, MaxTokens) :
          LET line == Flatten(ts)
          IN  /\ arg' = line
              /\ holds' = Holding(line)
              /\ field' = SectionField(line)
    /\ fn' = "Classify"
    /\ pc' = "done"
    /\ UNCHANGED <<ret, input, output, argLines, retLines, retSections, err, calls, errs, extracted, lineBuf, stepPos, node>>

(***************************************************************************)
(* RemoveNonMappingLines                                                   *)
(***************************************************************************)
\* the loop mutated: the last branch, for unit status lines, is missing
RECURSIVE RemoveNonMappingLinesLoopNoStatus(_, _)
RemoveNonMappingLinesLoopNoStatus(in, out) ==
    IF Len(in) = 0 THEN out
    ELSE LET line == Head(in)
         IN  IF IsUnitHeader(line)
             THEN RemoveNonMappingLinesLoopNoStatus(Tail(in), Append(out, line))
             ELSE IF IsTurnHeader(line)
             THEN RemoveNonMappingLinesLoopNoStatus(Tail(in), Append(out, line))
             ELSE IF IsMovementLine(line)
             THEN RemoveNonMappingLinesLoopNoStatus(Tail(in), Append(out, line))
             ELSE RemoveNonMappingLinesLoopNoStatus(Tail(in), out)

\* the loop over the lines of the input; out is the local output
RECURSIVE RemoveNonMappingLinesLoop(_, _)
RemoveNonMappingLinesLoop(in, out) ==
    IF Len(in) = 0 THEN out
    ELSE LET line == Head(in)
         IN  IF IsUnitHeader(line)
             THEN RemoveNonMappingLinesLoop(Tail(in), Append(out, line))
             ELSE IF IsTurnHeader(line)
             THEN RemoveNonMappingLinesLoop(Tail(in), Append(out, line))
             ELSE IF IsMovementLine(line)
             THEN RemoveNonMappingLinesLoop(Tail(in), Append(out, line))
             ELSE IF IsUnitStatus(line)
             THEN RemoveNonMappingLinesLoop(Tail(in), Append(out, line))
             ELSE RemoveNonMappingLinesLoop(Tail(in), out)

RemoveNonMappingLines(in) == RemoveNonMappingLinesLoop(in, <<>>)

\* the lines the inputs of RemoveNonMappingLines and SectionInput are made of:
\* a blank line, lines of every kind, and lines of no kind
lineBlank == <<>>
lineTribeHeader == B(<<"t", "r", "i", "b", "e", " ", "0", "9", "8", "7", ",", "x">>)
lineFleetHeader == B(<<"f", "l", "e", "e", "t", " ", "0", "9", "8", "7", "f", "1", ",", "y">>)
lineTurnHeader == B(<<"c", "u", "r", "r", "e", "n", "t", " ", "t", "u", "r", "n", " ", "8", "9", "9", "-", "1", "2", "(", "#", "1", ")", ",", "z">>)
lineTribeMovement == B(<<"t", "r", "i", "b", "e", " ", "m", "o", "v", "e", "m", "e", "n", "t", ":", "m", "o", "v", "e">>)
lineTribeFollows == B(<<"t", "r", "i", "b", "e", " ", "f", "o", "l", "l", "o", "w", "s", " ", "0", "9", "8", "7">>)
lineTribeGoesTo == B(<<"t", "r", "i", "b", "e", " ", "g", "o", "e", "s", " ", "t", "o", " ", "x", "y">>)
lineFleetMovement == B(<<"c", "a", "l", "m", " ", "n", "e", " ", "f", "l", "e", "e", "t", " ", "m", "o", "v", "e", "m", "e", "n", "t", ":", "m", "o", "v", "e">>)
lineScout1 == B(<<"s", "c", "o", "u", "t", " ", "1", ":", "s", "c", "o", "u", "t">>)
lineScout2 == B(<<"s", "c", "o", "u", "t", " ", "2", ":", "s", "c", "o", "u", "t">>)
lineTribeStatus == B(<<"0", "9", "8", "7", " ", "s", "t", "a", "t", "u", "s", ":", "a">>)
lineFleetStatus == B(<<"0", "9", "8", "7", "f", "1", " ", "s", "t", "a", "t", "u", "s", ":", "b">>)
lineNoComma == B(<<"t", "r", "i", "b", "e", " ", "0", "9", "8", "7">>)
lineOther == B(<<"s", "c", "o", "u", "t", " ", "9", ":", "x">>)

LinePool ==
    { lineBlank, lineTribeHeader, lineFleetHeader, lineTurnHeader,
      lineTribeMovement, lineTribeFollows, lineTribeGoesTo, lineFleetMovement,
      lineScout1, lineScout2, lineTribeStatus, lineFleetStatus,
      lineNoComma, lineOther }

CallRemoveNonMappingLines ==
    /\ pc = "idle"
    /\ \E lines \in Buffers(LinePool, MaxLines) :
          /\ argLines' = lines
          /\ retLines' = RemoveNonMappingLines(lines)
    /\ fn' = "RemoveNonMappingLines"
    /\ pc' = "done"
    /\ UNCHANGED <<arg, ret, input, output, retSections, holds, field, err, calls, errs, extracted, lineBuf, stepPos, node>>

(***************************************************************************)
(* SectionInput                                                            *)
(***************************************************************************)
\* bytes.Split(s, []byte{'\n'}): the pieces of s between its newlines; cur is
\* the piece being read and acc the pieces read
RECURSIVE SplitLoop(_, _, _)
SplitLoop(s, cur, acc) ==
    IF Len(s) = 0 THEN Append(acc, cur)
    ELSE IF s[1] = LF THEN SplitLoop(Tail(s), <<>>, Append(acc, cur))
    ELSE SplitLoop(Tail(s), Append(cur, s[1]), acc)

SplitLines(s) == SplitLoop(s, <<>>, <<>>)

\* bytes.Join(lines, []byte{'\n'})
RECURSIVE JoinLines(_)
JoinLines(lines) ==
    IF Len(lines) = 0 THEN <<>>
    ELSE IF Len(lines) = 1 THEN lines[1]
    ELSE lines[1] \o <<LF>> \o JoinLines(Tail(lines))

\* the constructor mutated: the sections are numbered from 0
NewSectionZeroBased(id, header) ==
    [Id |-> id - 1, Header |-> header, Turn |-> <<>>, Movement |-> <<>>,
     Follows |-> <<>>, GoesTo |-> <<>>, Fleet |-> <<>>, Scouts |-> <<>>,
     Status |-> <<>>]

\* &Section{Id: id, Header: header}; a field not set is nil, of length 0
NewSection(id, header) ==
    [Id |-> id, Header |-> header, Turn |-> <<>>, Movement |-> <<>>,
     Follows |-> <<>>, GoesTo |-> <<>>, Fleet |-> <<>>, Scouts |-> <<>>,
     Status |-> <<>>]

\* the loop mutated: the test for a current section comes before the test
\* for a unit header
RECURSIVE SectionInputLoopNilFirst(_, _, _)
SectionInputLoopNilFirst(lines, sections, section) ==
    IF Len(lines) = 0 THEN sections
    ELSE LET line == Head(lines)
             rest == Tail(lines)
         IN  IF Len(line) = 0 THEN SectionInputLoopNilFirst(rest, sections, section)
             ELSE IF section = 0 THEN SectionInputLoopNilFirst(rest, sections, section)
             ELSE IF IsUnitHeader(line)
             THEN SectionInputLoopNilFirst(rest,
                      Append(sections, NewSection(Len(sections) + 1, line)),
                      Len(sections) + 1)
             ELSE SectionInputLoopNilFirst(rest, sections, section)

\* the loop mutated: a status line is stored only while the section has none
RECURSIVE SectionInputLoopKeepFirst(_, _, _)
SectionInputLoopKeepFirst(lines, sections, section) ==
    IF Len(lines) = 0 THEN sections
    ELSE LET line == Head(lines)
             rest == Tail(lines)
         IN  IF Len(line) = 0 THEN SectionInputLoopKeepFirst(rest, sections, section)
             ELSE IF IsUnitHeader(line)
             THEN SectionInputLoopKeepFirst(rest,
                      Append(sections, NewSection(Len(sections) + 1, line)),
                      Len(sections) + 1)
             ELSE IF section = 0 THEN SectionInputLoopKeepFirst(rest, sections, section)
             ELSE IF IsFleetMovement(line)
             THEN SectionInputLoopKeepFirst(rest,
                      [sections EXCEPT ![section].Fleet = line], section)
             ELSE IF IsTribeFollows(line)
             THEN SectionInputLoopKeepFirst(rest,
                      [sections EXCEPT ![section].Follows = line], section)
             ELSE IF IsTribeGoesTo(line)
             THEN SectionInputLoopKeepFirst(rest,
                      [sections EXCEPT ![section].GoesTo = line], section)
             ELSE IF IsTribeMovement(line)
             THEN SectionInputLoopKeepFirst(rest,
                      [sections EXCEPT ![section].Movement = line], section)
             ELSE IF IsScoutLine(line)
             THEN SectionInputLoopKeepFirst(rest,
                      [sections EXCEPT ![section].Scouts = Append(@, line)], section)
             ELSE IF IsTurnHeader(line)
             THEN SectionInputLoopKeepFirst(rest,
                      [sections EXCEPT ![section].Turn = line], section)
             ELSE IF IsUnitStatus(line)
             THEN SectionInputLoopKeepFirst(rest,
                      [sections EXCEPT ![section].Status = IF Len(@) = 0 THEN line ELSE @], section)
             ELSE SectionInputLoopKeepFirst(rest, sections, section)

\* the loop mutated: a scout line the section already has is not stored again
RECURSIVE SectionInputLoopNoDuplicate(_, _, _)
SectionInputLoopNoDuplicate(lines, sections, section) ==
    IF Len(lines) = 0 THEN sections
    ELSE LET line == Head(lines)
             rest == Tail(lines)
         IN  IF Len(line) = 0 THEN SectionInputLoopNoDuplicate(rest, sections, section)
             ELSE IF IsUnitHeader(line)
             THEN SectionInputLoopNoDuplicate(rest,
                      Append(sections, NewSection(Len(sections) + 1, line)),
                      Len(sections) + 1)
             ELSE IF section = 0 THEN SectionInputLoopNoDuplicate(rest, sections, section)
             ELSE IF IsFleetMovement(line)
             THEN SectionInputLoopNoDuplicate(rest,
                      [sections EXCEPT ![section].Fleet = line], section)
             ELSE IF IsTribeFollows(line)
             THEN SectionInputLoopNoDuplicate(rest,
                      [sections EXCEPT ![section].Follows = line], section)
             ELSE IF IsTribeGoesTo(line)
             THEN SectionInputLoopNoDuplicate(rest,
                      [sections EXCEPT ![section].GoesTo = line], section)
             ELSE IF IsTribeMovement(line)
             THEN SectionInputLoopNoDuplicate(rest,
                      [sections EXCEPT ![section].Movement = line], section)
             ELSE IF IsScoutLine(line)
             THEN SectionInputLoopNoDuplicate(rest,
                      [sections EXCEPT ![section].Scouts =
                          IF \E i \in 1..Len(@) : @[i] = line THEN @ ELSE Append(@, line)], section)
             ELSE IF IsTurnHeader(line)
             THEN SectionInputLoopNoDuplicate(rest,
                      [sections EXCEPT ![section].Turn = line], section)
             ELSE IF IsUnitStatus(line)
             THEN SectionInputLoopNoDuplicate(rest,
                      [sections EXCEPT ![section].Status = line], section)
             ELSE SectionInputLoopNoDuplicate(rest, sections, section)

\* the loop mutated: a line of no other kind is stored as the status line
RECURSIVE SectionInputLoopStatusElse(_, _, _)
SectionInputLoopStatusElse(lines, sections, section) ==
    IF Len(lines) = 0 THEN sections
    ELSE LET line == Head(lines)
             rest == Tail(lines)
         IN  IF Len(line) = 0 THEN SectionInputLoopStatusElse(rest, sections, section)
             ELSE IF IsUnitHeader(line)
             THEN SectionInputLoopStatusElse(rest,
                      Append(sections, NewSection(Len(sections) + 1, line)),
                      Len(sections) + 1)
             ELSE IF section = 0 THEN SectionInputLoopStatusElse(rest, sections, section)
             ELSE IF IsFleetMovement(line)
             THEN SectionInputLoopStatusElse(rest,
                      [sections EXCEPT ![section].Fleet = line], section)
             ELSE IF IsTribeFollows(line)
             THEN SectionInputLoopStatusElse(rest,
                      [sections EXCEPT ![section].Follows = line], section)
             ELSE IF IsTribeGoesTo(line)
             THEN SectionInputLoopStatusElse(rest,
                      [sections EXCEPT ![section].GoesTo = line], section)
             ELSE IF IsTribeMovement(line)
             THEN SectionInputLoopStatusElse(rest,
                      [sections EXCEPT ![section].Movement = line], section)
             ELSE IF IsScoutLine(line)
             THEN SectionInputLoopStatusElse(rest,
                      [sections EXCEPT ![section].Scouts = Append(@, line)], section)
             ELSE IF IsTurnHeader(line)
             THEN SectionInputLoopStatusElse(rest,
                      [sections EXCEPT ![section].Turn = line], section)
             ELSE SectionInputLoopStatusElse(rest,
                      [sections EXCEPT ![section].Status = line], section)

\* the loop mutated: the first section stays the current one
RECURSIVE SectionInputLoopFirstSection(_, _, _)
SectionInputLoopFirstSection(lines, sections, section) ==
    IF Len(lines) = 0 THEN sections
    ELSE LET line == Head(lines)
             rest == Tail(lines)
         IN  IF Len(line) = 0 THEN SectionInputLoopFirstSection(rest, sections, section)
             ELSE IF IsUnitHeader(line)
             THEN SectionInputLoopFirstSection(rest,
                      Append(sections, NewSection(Len(sections) + 1, line)),
                      IF section = 0 THEN Len(sections) + 1 ELSE section)
             ELSE IF section = 0 THEN SectionInputLoopFirstSection(rest, sections, section)
             ELSE IF IsFleetMovement(line)
             THEN SectionInputLoopFirstSection(rest,
                      [sections EXCEPT ![section].Fleet = line], section)
             ELSE IF IsTribeFollows(line)
             THEN SectionInputLoopFirstSection(rest,
                      [sections EXCEPT ![section].Follows = line], section)
             ELSE IF IsTribeGoesTo(line)
             THEN SectionInputLoopFirstSection(rest,
                      [sections EXCEPT ![section].GoesTo = line], section)
             ELSE IF IsTribeMovement(line)
             THEN SectionInputLoopFirstSection(rest,
                      [sections EXCEPT ![section].Movement = line], section)
             ELSE IF IsScoutLine(line)
             THEN SectionInputLoopFirstSection(rest,
                      [sections EXCEPT ![section].Scouts = Append(@, line)], section)
             ELSE IF IsTurnHeader(line)
             THEN SectionInputLoopFirstSection(rest,
                      [sections EXCEPT ![section].Turn = line], section)
             ELSE IF IsUnitStatus(line)
             THEN SectionInputLoopFirstSection(rest,
                      [sections EXCEPT ![section].Status = line], section)
             ELSE SectionInputLoopFirstSection(rest, sections, section)

\* the loop over the lines; sections is the result so far, and section the
\* current section: 0 for nil, otherwise its position in sections
RECURSIVE SectionInputLoop(_, _, _)
SectionInputLoop(lines, sections, section) ==
    IF Len(lines) = 0 THEN sections
    ELSE LET line == Head(lines)
             rest == Tail(lines)
         IN  IF Len(line) = 0 THEN SectionInputLoop(rest, sections, section)
             ELSE IF IsUnitHeader(line)
             THEN SectionInputLoop(rest,
                      Append(sections, NewSection(Len(sections) + 1, line)),
                      Len(sections) + 1)
             ELSE IF section = 0 THEN SectionInputLoop(rest, sections, section)
             ELSE IF IsFleetMovement(line)
             THEN SectionInputLoop(rest,
                      [sections EXCEPT ![section].Fleet = line], section)
             ELSE IF IsTribeFollows(line)
             THEN SectionInputLoop(rest,
                      [sections EXCEPT ![section].Follows = line], section)
             ELSE IF IsTribeGoesTo(line)
             THEN SectionInputLoop(rest,
                      [sections EXCEPT ![section].GoesTo = line], section)
             ELSE IF IsTribeMovement(line)
             THEN SectionInputLoop(rest,
                      [sections EXCEPT ![section].Movement = line], section)
             ELSE IF IsScoutLine(line)
             THEN SectionInputLoop(rest,
                      [sections EXCEPT ![section].Scouts = Append(@, line)], section)
             ELSE IF IsTurnHeader(line)
             THEN SectionInputLoop(rest,
                      [sections EXCEPT ![section].Turn = line], section)
             ELSE IF IsUnitStatus(line)
             THEN SectionInputLoop(rest,
                      [sections EXCEPT ![section].Status = line], section)
             ELSE SectionInputLoop(rest, sections, section)

SectionInput(in) == SectionInputLoop(SplitLines(in), <<>>, 0)

\* a unit of a report: a unit header and the status line below it
UnitPairs ==
    {<<header, status>> : header \in {lineTribeHeader, lineFleetHeader},
                          status \in {lineTribeStatus, lineFleetStatus}}

\* the texts given to SectionInput: at most MaxLines lines of the pool, and
\* reports of at most MaxUnits units
SectionInputs ==
    {JoinLines(lines) : lines \in Buffers(LinePool, MaxLines)}
        \cup {JoinLines(Flatten(units)) : units \in Buffers(UnitPairs, MaxUnits)}

CallSectionInput ==
    /\ pc = "idle"
    /\ \E in \in SectionInputs :
          /\ arg' = in
          /\ retSections' = SectionInput(in)
    /\ fn' = "SectionInput"
    /\ pc' = "done"
    /\ UNCHANGED <<ret, input, output, argLines, retLines, holds, field,
                   err, calls, errs, extracted, lineBuf, stepPos, node>>

(***************************************************************************)
(* Replacement by pattern.  rx.ReplaceAll(src, template) replaces the      *)
(* matches of rx in src, found left to right and not overlapping, by the   *)
(* template, in which $n stands for the text the n-th group matched.  A     *)
(* template is a sequence of items, Bytes for literal text and Group for   *)
(* $n, the group given as the atoms it spans.  Every quantifier of the     *)
(* patterns is greedy and no pattern has two ways to match from the same   *)
(* start up to the same atom, so the match from a start is the longest.    *)
(***************************************************************************)
Max(S) == CHOOSE x \in S : \A y \in S : y <= x
Min(S) == CHOOSE x \in S : \A y \in S : x <= y

Bytes(text) == [kind |-> "bytes", text |-> text]
Group(from, to) == [kind |-> "group", from |-> from, to |-> to]

\* in the match of re from position i to position end of s, the position
\* where the first k atoms end
SpanEnd(s, i, end, re, k) ==
    Max({e \in MatchEnds(s, {i}, SubSeq(re, 1, k)) :
            end \in MatchEnds(s, {e}, SubSeq(re, k + 1, Len(re)))})

\* the template, expanded for the match of re from i to end
RECURSIVE Expand(_, _, _, _, _)
Expand(template, s, i, end, re) ==
    IF Len(template) = 0 THEN <<>>
    ELSE LET item == Head(template)
             text == IF item.kind = "bytes" THEN item.text
                     ELSE SubSeq(s, SpanEnd(s, i, end, re, item.from - 1),
                                    SpanEnd(s, i, end, re, item.to) - 1)
         IN  text \o Expand(Tail(template), s, i, end, re)

\* the bytes a match of re can begin with; no pattern matches the empty text
FirstBytes(re) ==
    LET atom == IF re[1].kind = "boundary" THEN re[2] ELSE re[1]
    IN  IF atom.kind = "lit" THEN {alt[1] : alt \in atom.alts} ELSE atom.class

\* the scan of ReplaceAll: i is the position in src, out the bytes written;
\* the bytes up to the next match are copied, and the match is replaced
RECURSIVE ReplaceAllLoop(_, _, _, _, _)
ReplaceAllLoop(re, template, src, i, out) ==
    LET found == {j \in i..Len(src) :
                     src[j] \in FirstBytes(re) /\ MatchEnds(src, {j}, re) # {}}
    IN  IF found = {} THEN out \o SubSeq(src, i, Len(src))
        ELSE LET start == Min(found)
                 end == Max(MatchEnds(src, {start}, re))
             IN  ReplaceAllLoop(re, template, src, end,
                                out \o SubSeq(src, i, start - 1)
                                    \o Expand(template, src, start, end, re))

ReplaceAll(re, src, template) == ReplaceAllLoop(re, template, src, 1, <<>>)

\* (?:[cefg]\d)?
UnitSuffix ==
    Lit({<<>>} \cup {<<letter, digit>> : letter \in {Ord("c"), Ord("e"), Ord("f"), Ord("g")},
                                        digit \in Digit})
\* (ne|se|sw|nw|n|s)
Direction == Lit({B(<<"n", "e">>), B(<<"s", "e">>), B(<<"s", "w">>), B(<<"n", "w">>), B(<<"n">>), B(<<"s">>)})

BACKSLASH == 92
COMMA == 44
DASH == 45

\* \\+-+ *
reBackslashDash ==
    <<Rep({BACKSLASH}, 1, Unbounded), Rep({DASH}, 1, Unbounded), Rep({SP}, 0, Unbounded)>>
\* \\+,+
reBackslashComma == <<Rep({BACKSLASH}, 1, Unbounded), Rep({COMMA}, 1, Unbounded)>>
\* \\+(\d{4}(?:[cefg]\d)?)
reBackslashUnit == <<Rep({BACKSLASH}, 1, Unbounded), Rep(Digit, 4, 4), UnitSuffix>>
\* ,+\\
reCommaBackslash == <<Rep({COMMA}, 1, Unbounded), Lit({<<BACKSLASH>>})>>
\* \b(ne|se|sw|nw|n|s) (\d{4}(?:[cefg]\d)?)
reDirectionUnit == <<WordBoundary, Direction, Lit({<<SP>>}), Rep(Digit, 4, 4), UnitSuffix>>
\* \\\\+
reRunOfBackslashes == <<Lit({<<BACKSLASH>>}), Rep({BACKSLASH}, 1, Unbounded)>>
\* ,,+
reRunOfComma == <<Lit({<<COMMA>>}), Rep({COMMA}, 1, Unbounded)>>

(***************************************************************************)
(* The line scrubbers                                                      *)
(***************************************************************************)
\* bytes.TrimRight(line, "\\")
RECURSIVE TrimRightBackslashes(_)
TrimRightBackslashes(line) ==
    IF Len(line) # 0 /\ line[Len(line)] = BACKSLASH
    THEN TrimRightBackslashes(SubSeq(line, 1, Len(line) - 1))
    ELSE line

\* \s
Whitespace == {TAB, LF, 12, CR, SP}

\* ^,(hsm|l|lcm|ljm|lsm|o)\b
edgeCodePattern ==
    <<Lit({<<COMMA>>}), Lit({B(<<"h", "s", "m">>), B(<<"l">>), B(<<"l", "c", "m">>), B(<<"l", "j", "m">>), B(<<"l", "s", "m">>), B(<<"o">>)}), WordBoundary>>
\* ^,\d{4}([cefg]\d)?\b
unitIDPattern == <<Lit({<<COMMA>>}), Rep(Digit, 4, 4), UnitSuffix, WordBoundary>>
\* ^[,\s]([ns][ew]?)\b
listDirectionPattern ==
    <<Rep({COMMA} \cup Whitespace, 1, 1),
      Lit({B(<<"n">>), B(<<"s">>), B(<<"n", "e">>), B(<<"n", "w">>), B(<<"s", "e">>), B(<<"s", "w">>)}), WordBoundary>>
\* ^[,\s]\d{4}([cefg]\d)?\b
listUnitIDPattern ==
    <<Rep({COMMA} \cup Whitespace, 1, 1), Rep(Digit, 4, 4), UnitSuffix, WordBoundary>>

\* for len(step) != 0 && step[0] != ',' { step = step[1:] }: step is the
\* position in line where the slice step begins; it moves to the next comma,
\* or past the end of the line
NextComma(line, step) ==
    Min({j \in step..Len(line) : line[j] = COMMA} \cup {Max({step, Len(line) + 1})})

\* the loop over the elements of a list: while the pattern matches at step,
\* the byte at step becomes a space and step moves past the match
RECURSIVE ListLoop(_, _, _)
ListLoop(pattern, line, step) ==
    LET elementMatch == MatchEnds(line, {step}, pattern)
    IN  IF elementMatch = {} THEN [line |-> line, step |-> step]
        ELSE ListLoop(pattern, [line EXCEPT ![step] = SP], Max(elementMatch))

\* the loop over the results: the line is rewritten in place
RECURSIVE scrubStepResultsLoop(_, _)
scrubStepResultsLoop(line, step) ==
    IF step > Len(line) THEN line
    ELSE LET edge == MatchEnds(line, {step}, edgeCodePattern)
             unit == MatchEnds(line, {step}, unitIDPattern)
         IN  IF edge # {}
             THEN LET list == ListLoop(listDirectionPattern, line, Max(edge))
                  IN  scrubStepResultsLoop(list.line, list.step)
             ELSE IF unit # {}
             THEN LET list == ListLoop(listUnitIDPattern, line, Max(unit))
                  IN  scrubStepResultsLoop(list.line, list.step)
             ELSE scrubStepResultsLoop(line, NextComma(line, step + 1))

scrubStepResults(line) == scrubStepResultsLoop(line, NextComma(line, 1))

\* line = re.ReplaceAll(line, template)
Replacement(re, template) == [re |-> re, template |-> template]

\* the replacements every scrubber of a step list begins with, in the order
\* of the source: backslash+dash, backslash+comma and comma+backslash become
\* a backslash, a unit ID gets a comma before it in place of backslashes or
\* of the space behind a direction, and a run of backslashes or of commas
\* becomes one
stepPasses ==
    <<Replacement(reBackslashDash, <<Bytes(<<BACKSLASH>>)>>),
      Replacement(reBackslashComma, <<Bytes(<<BACKSLASH>>)>>),
      Replacement(reCommaBackslash, <<Bytes(<<BACKSLASH>>)>>),
      Replacement(reBackslashUnit, <<Bytes(<<COMMA>>), Group(2, 3)>>),
      Replacement(reDirectionUnit, <<Group(2, 2), Bytes(<<COMMA>>), Group(4, 5)>>),
      Replacement(reRunOfBackslashes, <<Bytes(<<BACKSLASH>>)>>),
      Replacement(reRunOfComma, <<Bytes(<<COMMA>>)>>)>>

\* the replacements of passes applied to line, one after the other
RECURSIVE ReplacePasses(_, _)
ReplacePasses(line, passes) ==
    IF Len(passes) = 0 THEN line
    ELSE ReplacePasses(ReplaceAll(Head(passes).re, line, Head(passes).template),
                       Tail(passes))

\* bytes.ReplaceAll(line, []byte{',', ')'}, []byte{')'}) is the replacement of
\* the pattern that matches these two bytes
reCommaParen == <<Lit({<<COMMA, Ord(")")>>})>>

scrubFleetLine(line) ==
    IF Len(line) = 0 THEN line
    ELSE TrimRightBackslashes(
             ReplaceAll(reCommaParen, ReplacePasses(line, stepPasses),
                        <<Bytes(<<Ord(")")>>)>>))

\* scrubMovementLine mutated: the runs of commas are not reduced
scrubMovementLineKeepRuns(line) ==
    IF Len(line) = 0 THEN line
    ELSE TrimRightBackslashes(
             scrubStepResults(ReplacePasses(line, SubSeq(stepPasses, 1, 6))))

scrubMovementLine(line) ==
    IF Len(line) = 0 THEN line
    ELSE TrimRightBackslashes(scrubStepResults(ReplacePasses(line, stepPasses)))

\* scrubScoutLine mutated: the commas before a backslash are kept
scrubScoutLineKeepCommas(line) ==
    IF Len(line) = 0 THEN line
    ELSE TrimRightBackslashes(
             scrubStepResults(
                 ReplacePasses(line, SubSeq(stepPasses, 1, 2) \o SubSeq(stepPasses, 4, 7))))

scrubScoutLine(line) ==
    IF Len(line) = 0 THEN line
    ELSE TrimRightBackslashes(scrubStepResults(ReplacePasses(line, stepPasses)))

\* scrubStatusLine mutated: the trailing backslashes are kept
scrubStatusLineNoTrim(line) ==
    IF Len(line) = 0 THEN line
    ELSE scrubStepResults(ReplacePasses(line, stepPasses))

scrubStatusLine(line) ==
    IF Len(line) = 0 THEN line
    ELSE TrimRightBackslashes(scrubStepResults(ReplacePasses(line, stepPasses)))

\* bytes.TrimSpace(s), s a text of one-byte characters
RECURSIVE TrimSpace(_)
TrimSpace(s) ==
    IF Len(s) = 0 THEN s
    ELSE IF s[1] \in Whitespace \cup {11} THEN TrimSpace(Tail(s))
    ELSE IF s[Len(s)] \in Whitespace \cup {11} THEN TrimSpace(SubSeq(s, 1, Len(s) - 1))
    ELSE s

\* bytes.TrimPrefix(s, prefix)
TrimPrefix(s, prefix) ==
    IF HasPrefix(s, prefix) THEN SubSeq(s, Len(prefix) + 1, Len(s)) ELSE s

prefixFollows == B(<<"t", "r", "i", "b", "e", " ", "f", "o", "l", "l", "o", "w", "s">>)
prefixGoesTo == B(<<"t", "r", "i", "b", "e", " ", "g", "o", "e", "s", " ", "t", "o">>)

scrubFollowsLine(line) ==
    IF Len(line) = 0 THEN line ELSE TrimSpace(TrimPrefix(line, prefixFollows))

scrubGoesToLine(line) ==
    IF Len(line) = 0 THEN line ELSE TrimSpace(TrimPrefix(line, prefixGoesTo))

\* PreProcessMovementLine(line): the passes of scrubFleetLine, without the
\* test for an empty line
PreProcessMovementLine(line) ==
    TrimRightBackslashes(
        ReplaceAll(reCommaParen, ReplacePasses(line, stepPasses),
                   <<Bytes(<<Ord(")")>>)>>))

\* the lines given to the scrubbers: at most MaxScrub pieces, each a
\* separator, a dash, a space, a direction, a unit ID or a closing parenthesis
ScrubPieces ==
    {<<BACKSLASH>>, <<COMMA>>, <<DASH>>, <<SP>>, B(<<"n">>), B(<<"0", "9", "8", "7">>), B(<<")">>)}
ScrubLines == {Flatten(pieces) : pieces \in Buffers(ScrubPieces, MaxScrub)}

\* the scrubbers of a step list
ScrubFunctions ==
    {"scrubMovementLine", "scrubScoutLine", "scrubStatusLine", "scrubFleetLine",
     "PreProcessMovementLine"}

ScrubLine(name, line) ==
    CASE name = "scrubMovementLine" -> scrubMovementLine(line)
      [] name = "scrubScoutLine" -> scrubScoutLine(line)
      [] name = "scrubStatusLine" -> scrubStatusLine(line)
      [] name = "scrubFleetLine" -> scrubFleetLine(line)
      [] name = "PreProcessMovementLine" -> PreProcessMovementLine(line)

CallScrubLine ==
    /\ pc = "idle"
    /\ \E name \in ScrubFunctions, line \in ScrubLines :
          /\ fn' = name
          /\ arg' = line
          /\ ret' = ScrubLine(name, line)
    /\ pc' = "done"
    /\ UNCHANGED <<input, output, argLines, retLines, retSections, holds, field, err, calls, errs, extracted, lineBuf, stepPos, node>>

(***************************************************************************)
(* The entry points.  The result of a call is a record: the sections and   *)
(* the error returned, the functions called while it ran, in call order,   *)
(* and the errors the calls inside it returned, in return order.           *)
(***************************************************************************)
Nil == "nil"
ErrEmptyInput == "empty input"
ErrUnknownFormat == "unknown format"

Result(returned, error, called, inner) ==
    [sections |-> returned, err |-> error, calls |-> called, errs |-> inner]
Returned(name, error) == [fn |-> name, err |-> error]

isascii(b) == 0 < b /\ b <= 127

\* unicode.ToLower(r), r an ASCII rune, a Latin-1 rune or U+FFFD
ToLowerRune(r) ==
    IF r \in 65..90 THEN r + 32
    ELSE IF r \in (192..222) \ {215} THEN r + 32
    ELSE r

\* utf8.AppendRune(nil, r), r below the surrogates or U+FFFD
EncodeRune(r) ==
    IF r < 128 THEN <<r>>
    ELSE IF r < 2048 THEN <<192 + (r \div 64), 128 + (r % 64)>>
    ELSE <<224 + (r \div 4096), 128 + ((r \div 64) % 64), 128 + (r % 64)>>

\* bytes.Map(unicode.ToLower, s): a byte that starts no encoding is read as
\* U+FFFD and written as its three bytes
RECURSIVE MapToLower(_, _)
MapToLower(s, out) ==
    IF Len(s) = 0 THEN out
    ELSE LET rune == DecodeRune(s)
         IN  MapToLower(SubSeq(s, rune.w + 1, Len(s)),
                        out \o EncodeRune(ToLowerRune(rune.r)))

\* bytes.ToLower(s): ASCII text is mapped byte by byte, other text by runes
ToLower(s) ==
    IF \A i \in 1..Len(s) : s[i] < 128
    THEN [i \in 1..Len(s) |-> IF s[i] \in 65..90 THEN s[i] + 32 ELSE s[i]]
    ELSE MapToLower(s, <<>>)

\* the body of the loop mutated: the first scout line is lost
ScrubSectionDropScout(section) ==
    [section EXCEPT
        !.Movement = scrubMovementLine(@),
        !.Follows = scrubFollowsLine(@),
        !.GoesTo = scrubGoesToLine(@),
        !.Fleet = scrubFleetLine(@),
        !.Scouts = [n \in 1..(Len(@) - 1) |-> scrubScoutLine(@[n + 1])],
        !.Status = scrubStatusLine(@)]

\* the body of the loop over the sections, for one section
ScrubSection(section) ==
    [section EXCEPT
        !.Movement = scrubMovementLine(@),
        !.Follows = scrubFollowsLine(@),
        !.GoesTo = scrubGoesToLine(@),
        !.Fleet = scrubFleetLine(@),
        !.Scouts = [n \in 1..Len(@) |-> scrubScoutLine(@[n])],
        !.Status = scrubStatusLine(@)]

\* the functions the body of the loop calls for one section
ScrubCalls(section) ==
    <<"scrubMovementLine", "scrubFollowsLine", "scrubGoesToLine", "scrubFleetLine">>
        \o [n \in 1..Len(section.Scouts) |-> "scrubScoutLine"]
        \o <<"scrubStatusLine">>

RECURSIVE ScrubSections(_)
ScrubSections(sections) ==
    IF Len(sections) = 0 THEN <<>>
    ELSE <<ScrubSection(Head(sections))>> \o ScrubSections(Tail(sections))

RECURSIVE ScrubSectionsCalls(_)
ScrubSectionsCalls(sections) ==
    IF Len(sections) = 0 THEN <<>>
    ELSE ScrubCalls(Head(sections)) \o ScrubSectionsCalls(Tail(sections))

\* ParseText mutated: the input is not forced to lower case
ParseTextNoLower(in) ==
    IF ~(Len(in) > 3 /\ isascii(in[1]) /\ isascii(in[2]) /\ isascii(in[3]))
    THEN Result(<<>>, ErrUnknownFormat, <<>>, <<>>)
    ELSE LET compressed == CompressSpaces(in)
             split == SectionInput(compressed)
         IN  Result(ScrubSections(split), Nil,
                    <<"bytes.ToLower", "CompressSpaces", "SectionInput">>
                        \o ScrubSectionsCalls(split),
                    <<>>)

ParseText(in) ==
    IF ~(Len(in) > 3 /\ isascii(in[1]) /\ isascii(in[2]) /\ isascii(in[3]))
    THEN Result(<<>>, ErrUnknownFormat, <<>>, <<>>)
    ELSE LET lowered == ToLower(in)
             compressed == CompressSpaces(lowered)
             split == SectionInput(compressed)
         IN  Result(ScrubSections(split), Nil,
                    <<"bytes.ToLower", "CompressSpaces", "SectionInput">>
                        \o ScrubSectionsCalls(split),
                    <<>>)

\* the first bytes of a ZIP container, which a Word document is
zipSignature == <<Ord("P"), Ord("K"), 3, 4>>

\* docx.DetectWordDocType(input)
DetectWordDocType(in) == IF HasPrefix(in, zipSignature) THEN "Docx" ELSE "Unknown"

\* read is what docx.ReadBuffer(input) returns: the text of the document or
\* an error
ParseDocx(in, read) ==
    IF DetectWordDocType(in) # "Docx"
    THEN Result(<<>>, ErrUnknownFormat, <<"docx.DetectWordDocType">>, <<>>)
    ELSE IF read.err # Nil
    THEN Result(<<>>, read.err, <<"docx.DetectWordDocType", "docx.ReadBuffer">>,
                <<Returned("docx.ReadBuffer", read.err)>>)
    ELSE LET Parsed(parsed) ==
                 Result(parsed.sections, parsed.err,
                        <<"docx.DetectWordDocType", "docx.ReadBuffer", "ParseText">>
                            \o parsed.calls,
                        <<Returned("docx.ReadBuffer", Nil),
                          Returned("ParseText", parsed.err)>>)
         IN  Parsed(ParseText(read.text))

\* ParseSections mutated: the test for an empty input is missing
ParseSectionsNoEmptyCheck(in, read) ==
    LET Fallback(docx, parsed) ==
            Result(parsed.sections, parsed.err,
                   <<"ParseDocx">> \o docx.calls \o <<"ParseText">> \o parsed.calls,
                   docx.errs \o <<Returned("ParseDocx", docx.err),
                                  Returned("ParseText", parsed.err)>>)
        Decide(docx) ==
            IF docx.err # Nil /\ ErrUnknownFormat = docx.err
            THEN Fallback(docx, ParseText(in))
            ELSE Result(docx.sections, docx.err,
                        <<"ParseDocx">> \o docx.calls,
                        docx.errs \o <<Returned("ParseDocx", docx.err)>>)
    IN  Decide(ParseDocx(in, read))

\* errors.Is(ErrUnknownFormat, err): ErrUnknownFormat wraps no error, so it
\* is err exactly when the two are equal
ParseSections(in, read) ==
    IF Len(in) = 0 THEN Result(<<>>, ErrEmptyInput, <<>>, <<>>)
    ELSE LET Fallback(docx, parsed) ==
                 Result(parsed.sections, parsed.err,
                        <<"ParseDocx">> \o docx.calls \o <<"ParseText">> \o parsed.calls,
                        docx.errs \o <<Returned("ParseDocx", docx.err),
                                       Returned("ParseText", parsed.err)>>)
             Decide(docx) ==
                 IF docx.err # Nil /\ ErrUnknownFormat = docx.err
                 THEN Fallback(docx, ParseText(in))
                 ELSE Result(docx.sections, docx.err,
                             <<"ParseDocx">> \o docx.calls,
                             docx.errs \o <<Returned("ParseDocx", docx.err)>>)
         IN  Decide(ParseDocx(in, read))

\* the parts the payload of a movement, scout, fleet or status line is made of
Pieces ==
    {B(<<",", "l">>), B(<<",", "n">>), B(<<" ", "n">>), B(<<",", "0", "9", "8", "7">>), B(<<" ", "0", "9", "8", "8">>), B(<<"\\">>)}

\* the lines of a report: a text before the colon and a payload of at most
\* MaxPieces pieces
Payloads == {Flatten(pieces) : pieces \in Buffers(Pieces, MaxPieces)}
LineStems ==
    {B(<<"t", "r", "i", "b", "e", " ", "m", "o", "v", "e", "m", "e", "n", "t", ":">>), B(<<"c", "a", "l", "m", " ", "n", "e", " ", "f", "l", "e", "e", "t", " ", "m", "o", "v", "e", "m", "e", "n", "t", ":">>), B(<<"s", "c", "o", "u", "t", " ", "1", ":">>), B(<<"0", "9", "8", "7", " ", "s", "t", "a", "t", "u", "s", ":">>)}

\* the texts given to ParseText: buffers of at most MaxLen bytes, reports of
\* a unit header and one line, a report in upper case with spaces, a report
\* with the lines ended by CR LF, and a report with two scout lines
header0987 == B(<<"t", "r", "i", "b", "e", " ", "0", "9", "8", "7", ",">>)
textUpper == B(<<"T", "R", "I", "B", "E", " ", "0", "9", "8", "7", ",", " ">>) \o <<LF>> \o B(<<"T", "r", "i", "b", "e", " ", "F", "o", "l", "l", "o", "w", "s", " ", " ", "0", "9", "8", "8">>)
textCRLF == B(<<"t", "r", "i", "b", "e", " ", "0", "9", "8", "7", ",">>) \o <<CR, LF>> \o B(<<"0", "9", "8", "7", " ", "s", "t", "a", "t", "u", "s", ":", "a">>) \o <<CR, LF>>
textTwoScouts ==
    B(<<"f", "l", "e", "e", "t", " ", "0", "9", "8", "7", "f", "1", ",">>) \o <<LF>> \o B(<<"s", "c", "o", "u", "t", " ", "1", ":", ",", "l", ",", "n">>) \o <<LF>>
        \o B(<<"s", "c", "o", "u", "t", " ", "2", ":", ",", "0", "9", "8", "7", ",", "0", "9", "8", "8", "\\">>)
GuardAlphabet == {Ord("a"), 0, 255}
ParseTextInputs ==
    Buffers(GuardAlphabet, MaxLen)
        \cup {header0987 \o <<LF>> \o stem \o payload :
                 stem \in LineStems, payload \in Payloads}
        \cup {textUpper, textCRLF, textTwoScouts}

CallParseText ==
    /\ pc = "idle"
    /\ \E in \in ParseTextInputs :
          \E result \in {ParseText(in)} :
              /\ arg' = in
              /\ retSections' = result.sections
              /\ err' = result.err
              /\ calls' = result.calls
              /\ errs' = result.errs
    /\ extracted' = <<>>
    /\ fn' = "ParseText"
    /\ pc' = "done"
    /\ UNCHANGED <<ret, input, output, argLines, retLines, holds, field, lineBuf, stepPos, node>>

\* what docx.ReadBuffer can return for a container: the text of a report,
\* a text that begins with a byte order mark, no text at all, or an error
textBOM == <<239, 187, 191>> \o header0987
ReadResults ==
    {[text |-> text, err |-> Nil] : text \in {textCRLF, textBOM, <<>>}}
        \cup {[text |-> <<>>, err |-> ErrUnknownFormat]}

\* the buffers given to ParseSections and ParseDocx: none, a container, texts
\* and a buffer that is neither
EntryInputs ==
    {<<>>, zipSignature, textCRLF, textUpper, B(<<"a", "b">>), <<255, 254, 0, 0>>}

CallParseDocx ==
    /\ pc = "idle"
    /\ \E in \in EntryInputs, read \in ReadResults :
          \E result \in {ParseDocx(in, read)} :
              /\ arg' = in
              /\ extracted' = IF DetectWordDocType(in) = "Docx" THEN read.text ELSE <<>>
              /\ retSections' = result.sections
              /\ err' = result.err
              /\ calls' = result.calls
              /\ errs' = result.errs
    /\ fn' = "ParseDocx"
    /\ pc' = "done"
    /\ UNCHANGED <<ret, input, output, argLines, retLines, holds, field, lineBuf, stepPos, node>>

CallParseSections ==
    /\ pc = "idle"
    /\ \E in \in EntryInputs, read \in ReadResults :
          \E result \in {ParseSections(in, read)} :
              /\ arg' = in
              /\ extracted' = IF DetectWordDocType(in) = "Docx" THEN read.text ELSE <<>>
              /\ retSections' = result.sections
              /\ err' = result.err
              /\ calls' = result.calls
              /\ errs' = result.errs
    /\ fn' = "ParseSections"
    /\ pc' = "done"
    /\ UNCHANGED <<ret, input, output, argLines, retLines, holds, field, lineBuf, stepPos, node>>

\* the lines given to scrubStepResults: the payloads of the report lines, and
\* a line with a list whose separator is a tab
lineTabList == B(<<"a", ",", "l">>) \o <<TAB>> \o B(<<"n", ",", "0", "9", "8", "7">>) \o <<TAB>> \o B(<<"0", "9", "8", "8">>)
StepResultLines == Payloads \cup {lineTabList}

\* scrubStepResults, one iteration of a loop per step.  step := line, and the
\* first loop moves step to the first comma
CallScrubStepResults ==
    /\ pc = "idle"
    /\ \E line \in StepResultLines :
          /\ arg' = line
          /\ lineBuf' = line
          /\ stepPos' = NextComma(line, 1)
    /\ fn' = "scrubStepResults"
    /\ pc' = "results"
    /\ UNCHANGED <<ret, input, output, argLines, retLines, retSections, holds, field, err, calls, errs, extracted, node>>

\* for len(step) > 0: step starts with an edge code
ScrubStepResultsEdge ==
    /\ pc = "results"
    /\ stepPos <= Len(lineBuf)
    /\ MatchEnds(lineBuf, {stepPos}, edgeCodePattern) # {}
    /\ stepPos' = Max(MatchEnds(lineBuf, {stepPos}, edgeCodePattern))
    /\ pc' = "directions"
    /\ UNCHANGED <<fn, arg, ret, input, output, lineBuf, argLines, retLines, retSections, holds, field, err, calls, errs, extracted, node>>

\* step starts with a unit ID, and with no edge code
ScrubStepResultsUnit ==
    /\ pc = "results"
    /\ stepPos <= Len(lineBuf)
    /\ MatchEnds(lineBuf, {stepPos}, edgeCodePattern) = {}
    /\ MatchEnds(lineBuf, {stepPos}, unitIDPattern) # {}
    /\ stepPos' = Max(MatchEnds(lineBuf, {stepPos}, unitIDPattern))
    /\ pc' = "units"
    /\ UNCHANGED <<fn, arg, ret, input, output, lineBuf, argLines, retLines, retSections, holds, field, err, calls, errs, extracted, node>>

\* no matches: step moves one byte on and then to the next comma
ScrubStepResultsSkip ==
    /\ pc = "results"
    /\ stepPos <= Len(lineBuf)
    /\ MatchEnds(lineBuf, {stepPos}, edgeCodePattern) = {}
    /\ MatchEnds(lineBuf, {stepPos}, unitIDPattern) = {}
    /\ stepPos' = NextComma(lineBuf, stepPos + 1)
    /\ UNCHANGED <<pc, fn, arg, ret, input, output, lineBuf, argLines, retLines, retSections, holds, field, err, calls, errs, extracted, node>>

\* the pattern of the list the loop is in
listPattern == IF pc = "directions" THEN listDirectionPattern ELSE listUnitIDPattern

\* ScrubStepResultsElement mutated: the space is written one byte too far
ScrubStepResultsElementOff ==
    /\ pc \in {"directions", "units"}
    /\ MatchEnds(lineBuf, {stepPos}, listPattern) # {}
    /\ lineBuf' = [lineBuf EXCEPT ![stepPos + 1] = SP]
    /\ stepPos' = Max(MatchEnds(lineBuf, {stepPos}, listPattern))
    /\ UNCHANGED <<pc, fn, arg, ret, input, output, argLines, retLines, retSections, holds, field, err, calls, errs, extracted, node>>

\* an element of the list is at step: step[0] = ' ' and step moves past it
ScrubStepResultsElement ==
    /\ pc \in {"directions", "units"}
    /\ MatchEnds(lineBuf, {stepPos}, listPattern) # {}
    /\ lineBuf' = [lineBuf EXCEPT ![stepPos] = SP]
    /\ stepPos' = Max(MatchEnds(lineBuf, {stepPos}, listPattern))
    /\ UNCHANGED <<pc, fn, arg, ret, input, output, argLines, retLines, retSections, holds, field, err, calls, errs, extracted, node>>

\* no element of the list is at step: continue with the loop over the results
ScrubStepResultsListEnd ==
    /\ pc \in {"directions", "units"}
    /\ MatchEnds(lineBuf, {stepPos}, listPattern) = {}
    /\ pc' = "results"
    /\ UNCHANGED <<fn, arg, ret, input, output, lineBuf, stepPos, argLines, retLines, retSections, holds, field, err, calls, errs, extracted, node>>

\* len(step) = 0: return line
ScrubStepResultsReturn ==
    /\ pc = "results"
    /\ stepPos > Len(lineBuf)
    /\ ret' = lineBuf
    /\ pc' = "done"
    /\ UNCHANGED <<fn, arg, input, output, lineBuf, stepPos, argLines, retLines, retSections, holds, field, err, calls, errs, extracted, node>>

(***************************************************************************)
(* parseElementHeader.  A call returns a node, or panics when it indexes a *)
(* slice past its end.                                                     *)
(***************************************************************************)
ErrInvalidElementId == "invalid element id"
ErrMissingElementHeader == "missing element header"
ErrMissingField == "missing field"
ErrUnexpectedInput == "unexpected input"

\* ^courier \d{4}c\d$
rxUnitCourier == <<Lit({B(<<"c", "o", "u", "r", "i", "e", "r", " ">>)}), Rep(Digit, 4, 4), Lit({B(<<"c">>)}), Rep(Digit, 1, 1)>>
\* ^element \d{4}e\d$
rxUnitElement == <<Lit({B(<<"e", "l", "e", "m", "e", "n", "t", " ">>)}), Rep(Digit, 4, 4), Lit({B(<<"e">>)}), Rep(Digit, 1, 1)>>
\* ^fleet \d{4}f\d$
rxUnitFleet == <<Lit({B(<<"f", "l", "e", "e", "t", " ">>)}), Rep(Digit, 4, 4), Lit({B(<<"f">>)}), Rep(Digit, 1, 1)>>
\* ^garrison \d{4}g\d$
rxUnitGarrison == <<Lit({B(<<"g", "a", "r", "r", "i", "s", "o", "n", " ">>)}), Rep(Digit, 4, 4), Lit({B(<<"g">>)}), Rep(Digit, 1, 1)>>
\* ^tribe \d{4}$
rxUnitTribe == <<Lit({B(<<"t", "r", "i", "b", "e", " ">>)}), Rep(Digit, 4, 4)>>

\* the patterns in the order parseElementHeader tries them
rxUnits == <<rxUnitCourier, rxUnitElement, rxUnitFleet, rxUnitGarrison, rxUnitTribe>>

\* rx.FindSubmatch(s), rx one of the patterns above, which begin with ^, end
\* with $ and have no parenthesized group: nil (here the empty sequence) when
\* s does not match, else a slice whose only element is the match
FindSubmatch(rx, s) ==
    IF (Len(s) + 1) \in MatchEnds(s, {1}, rx) THEN <<s>> ELSE <<>>

\* slice[i] of Go is defined when i < len(slice); otherwise the call panics
InRange(slice, i) == i < Len(slice)
\* slice[i] of Go, i in range
At(slice, i) == slice[i + 1]

\* bytes.Split(s, []byte{','})
RECURSIVE SplitFieldsLoop(_, _, _)
SplitFieldsLoop(s, cur, acc) ==
    IF Len(s) = 0 THEN Append(acc, cur)
    ELSE IF s[1] = COMMA THEN SplitFieldsLoop(Tail(s), <<>>, Append(acc, cur))
    ELSE SplitFieldsLoop(Tail(s), Append(cur, s[1]), acc)

SplitFields(s) == SplitFieldsLoop(s, <<>>, <<>>)

\* bytes.Join(fields, []byte{','})
RECURSIVE JoinFields(_)
JoinFields(fields) ==
    IF Len(fields) = 0 THEN <<>>
    ELSE IF Len(fields) = 1 THEN fields[1]
    ELSE fields[1] \o <<COMMA>> \o JoinFields(Tail(fields))

\* &Node{Kind: kind, Value: value, Error: error, Input: text}
Node(kind, value, error, text) ==
    [Kind |-> kind, Value |-> value, Error |-> error, Input |-> text, Children |-> <<>>]

\* the outcome of a call: the node returned, or a panic
ReturnNode(root) == [panic |-> FALSE, node |-> root]
Panic == [panic |-> TRUE, node |-> Node("", <<>>, Nil, <<>>)]

\* the element-id node: the first pattern that matches the first field gives
\* match, and the node takes match[1]
ElementID(first) ==
    LET matching == {k \in 1..Len(rxUnits) : FindSubmatch(rxUnits[k], first) # <<>>}
    IN  IF matching = {}
        THEN ReturnNode(Node("element-id", <<>>, ErrInvalidElementId, first))
        ELSE LET match == FindSubmatch(rxUnits[Min(matching)], first)
             IN  IF InRange(match, 1)
                 THEN ReturnNode(Node("element-id", At(match, 1), Nil, <<>>))
                 ELSE Panic

\* the part of parseElementHeader behind the element-id node: the nodes for
\* the name and the two hexes, each read from its field unless the test on
\* len(fields) before it holds, and the node for more than four fields
HeaderFields(root, fields, element) ==
    IF Len(fields) >= 1 /\ ~InRange(fields, 1) THEN Panic
    ELSE IF Len(fields) >= 2 /\ ~InRange(fields, 2) THEN Panic
    ELSE IF Len(fields) >= 3 /\ ~InRange(fields, 3) THEN Panic
    ELSE LET name ==
                 IF Len(fields) < 1 THEN Node("name", <<>>, ErrMissingField, <<>>)
                 ELSE Node("name", TrimSpace(At(fields, 1)), Nil, <<>>)
             currentHex ==
                 IF Len(fields) < 2 THEN Node("current-hex", <<>>, ErrMissingField, <<>>)
                 ELSE Node("current-hex", <<>>, Nil, <<>>)
             previousHex ==
                 IF Len(fields) < 3 THEN Node("previous-hex", <<>>, ErrMissingField, <<>>)
                 ELSE Node("previous-hex", <<>>, Nil, <<>>)
             extra ==
                 IF Len(fields) > 4
                 THEN <<Node("extra-input", <<>>, ErrUnexpectedInput,
                             JoinFields(SubSeq(fields, 5, Len(fields))))>>
                 ELSE <<>>
         IN  ReturnNode([root EXCEPT
                 !.Children = <<element, name, currentHex, previousHex>> \o extra])

parseElementHeader(elementHeader) ==
    LET root == IF Len(elementHeader) = 0
                THEN Node("element-header", <<>>, ErrMissingElementHeader, elementHeader)
                ELSE Node("element-header", <<>>, Nil, <<>>)
        Fields(fields, element) ==
            IF element.panic THEN Panic ELSE HeaderFields(root, fields, element.node)
        Element(fields) == Fields(fields, ElementID(TrimSpace(At(fields, 0))))
    IN  Element(SplitFields(elementHeader))

\* the headers given to parseElementHeader: a unit designation of each kind,
\* or a text that is none, and up to MaxFields fields in all
UnitFields ==
    {B(<<"c", "o", "u", "r", "i", "e", "r", " ", "0", "9", "8", "7", "c", "1">>), B(<<"e", "l", "e", "m", "e", "n", "t", " ", "0", "9", "8", "7", "e", "1">>), B(<<"f", "l", "e", "e", "t", " ", "0", "9", "8", "7", "f", "1">>), B(<<"g", "a", "r", "r", "i", "s", "o", "n", " ", "0", "9", "8", "7", "g", "1">>), B(<<" ", "t", "r", "i", "b", "e", " ", "0", "9", "8", "7">>),
     B(<<"t", "r", "i", "b", "e", " ", "9", "8", "7">>), <<>>}
OtherFields == {B(<<"x">>), B(<<" ", "y", " ">>)}
ElementHeaders ==
    {JoinFields(<<unit>> \o others) :
        unit \in UnitFields, others \in Buffers(OtherFields, MaxFields - 1)}

CallParseElementHeader ==
    /\ pc = "idle"
    /\ \E elementHeader \in ElementHeaders :
          \E result \in {parseElementHeader(elementHeader)} :
              /\ arg' = elementHeader
              /\ node' = result.node
              /\ pc' = IF result.panic THEN "panic" ELSE "done"
    /\ fn' = "parseElementHeader"
    /\ UNCHANGED <<ret, input, output, argLines, retLines, retSections, holds, field, err, calls, errs, extracted, lineBuf, stepPos>>

\* no node: the value of the variable node before parseElementHeader returns
NoNode == Node("", <<>>, Nil, <<>>)

(***************************************************************************)
(* The specification                                                       *)
(***************************************************************************)
Init ==
    /\ pc = "idle"
    /\ fn = "none"
    /\ arg = <<>>
    /\ ret = <<>>
    /\ input = <<>>
    /\ output = <<>>
    /\ argLines = <<>>
    /\ retLines = <<>>
    /\ retSections = <<>>
    /\ holds = {}
    /\ field = "none"
    /\ err = Nil
    /\ calls = <<>>
    /\ errs = <<>>
    /\ extracted = <<>>
    /\ lineBuf = <<>>
    /\ stepPos = 1
    /\ node = NoNode

Next ==
    \/ CallCompressSpaces
    \/ CallScrubEOL
    \/ CallScrubBadUTF8
    \/ ScrubBadUTF8Copy
    \/ ScrubBadUTF8Replace
    \/ ScrubBadUTF8TooLarge
    \/ ScrubBadUTF8Return
    \/ CallClassify
    \/ CallRemoveNonMappingLines
    \/ CallSectionInput
    \/ CallParseText
    \/ CallParseDocx
    \/ CallParseSections
    \/ CallScrubLine
    \/ CallScrubStepResults
    \/ ScrubStepResultsEdge
    \/ ScrubStepResultsUnit
    \/ ScrubStepResultsSkip
    \/ ScrubStepResultsElement
    \/ ScrubStepResultsListEnd
    \/ ScrubStepResultsReturn
    \/ CallParseElementHeader

Spec == Init /\ [][Next]_vars

\* the iterations of the loop of ScrubBadUTF8
ScrubBadUTF8Step ==
    \/ ScrubBadUTF8Copy
    \/ ScrubBadUTF8Replace
    \/ ScrubBadUTF8TooLarge
    \/ ScrubBadUTF8Return

\* the iterations of the loops of scrubStepResults
ScrubStepResultsStep ==
    \/ ScrubStepResultsEdge
    \/ ScrubStepResultsUnit
    \/ ScrubStepResultsSkip
    \/ ScrubStepResultsElement
    \/ ScrubStepResultsListEnd
    \/ ScrubStepResultsReturn

\* the call runs in one goroutine that nothing suspends: while the loop has a
\* next iteration, it is executed
FairSpec == Spec /\ WF_vars(ScrubBadUTF8Step) /\ WF_vars(ScrubStepResultsStep)

(***************************************************************************)
(* Properties of CompressSpaces                                            *)
(***************************************************************************)
Compressed == pc = "done" /\ fn = "CompressSpaces"

\* the delimiter set and the blanks, as the contract of CompressSpaces names them
DelimiterSet == {LF, Ord(","), Ord("("), Ord(")"), Ord("\\"), Ord(":")}
Blank == {SP, TAB}

\* C1: CompressSpaces is idempotent: compressing the result of a call again
\* gives that result.
C1_Idempotent ==
    Compressed => CompressSpaces(ret) = ret

\* a call that removed blanks and kept a space
C1_Witness ==
    /\ Compressed
    /\ arg = <<Ord("a"), SP, SP, Ord("b")>>
    /\ ret = <<Ord("a"), SP, Ord("b")>>
    /\ CompressSpaces(ret) = ret

\* C2: the result of CompressSpaces neither begins nor ends with a space.
C2_NoSpaceAtEitherEnd ==
    Compressed /\ Len(ret) > 0 => ret[1] # SP /\ ret[Len(ret)] # SP

\* C3: no space of the result of CompressSpaces is immediately preceded or
\* immediately followed by a delimiter.
C3_NoSpaceTouchesDelimiter ==
    Compressed =>
        \A i \in 1..Len(ret) :
            ret[i] = SP =>
                /\ i > 1 => ret[i-1] \notin DelimiterSet
                /\ i < Len(ret) => ret[i+1] \notin DelimiterSet

\* a call whose input has a blank right after a delimiter
C3_Witness ==
    /\ Compressed
    /\ arg = <<Ord(":"), TAB, Ord("b"), SP>>
    /\ ret = <<Ord(":"), Ord("b")>>

\* the maximal runs of blanks of s that lie between two bytes that are neither
\* blanks nor delimiters, as pairs <<first, last>> of positions
InnerRuns(s) ==
    {r \in (2..Len(s)-1) \X (2..Len(s)-1) :
        /\ r[1] <= r[2]
        /\ \A k \in r[1]..r[2] : s[k] \in Blank
        /\ s[r[1]-1] \notin Blank \cup DelimiterSet
        /\ s[r[2]+1] \notin Blank \cup DelimiterSet}

\* C4: the result of CompressSpaces has no tab and no two adjacent spaces, and
\* a run of blanks between two non-delimiter bytes becomes exactly one space:
\* the result is the compressed text before the run, one space, and the
\* compressed text after the run.
C4_RunsBecomeOneSpace ==
    Compressed =>
        /\ \A i \in 1..Len(ret) : ret[i] # TAB
        /\ \A i \in 1..Len(ret)-1 : ~(ret[i] = SP /\ ret[i+1] = SP)
        /\ \A r \in InnerRuns(arg) :
              ret = CompressSpaces(SubSeq(arg, 1, r[1]-1)) \o <<SP>>
                        \o CompressSpaces(SubSeq(arg, r[2]+1, Len(arg)))

\* a call whose input has a run of a tab and a space between two letters
C4_Witness ==
    /\ Compressed
    /\ arg = <<Ord("a"), TAB, SP, Ord("b")>>
    /\ InnerRuns(arg) = {<<2, 3>>}
    /\ ret = <<Ord("a"), SP, Ord("b")>>

(***************************************************************************)
(* Properties of ScrubEOL                                                  *)
(***************************************************************************)
EolScrubbed == pc = "done" /\ fn = "ScrubEOL"

\* what becomes of the byte at position i of s: a CR, alone or before an LF,
\* becomes one LF; the LF of a CR+LF pair becomes nothing; another byte stays
EolImage(s, i) ==
    IF s[i] = CR THEN <<LF>>
    ELSE IF s[i] = LF /\ i > 1 /\ s[i-1] = CR THEN <<>>
    ELSE <<s[i]>>

\* C5: ScrubEOL(x) is x with every CR+LF pair and every other CR replaced by
\* one LF and every other byte kept in order; the result has no CR, and an
\* input without CR is returned as it is.
C5_EolNormalised ==
    EolScrubbed =>
        /\ ret = Flatten([i \in 1..Len(arg) |-> EolImage(arg, i)])
        /\ \A i \in 1..Len(ret) : ret[i] # CR
        /\ (\A i \in 1..Len(arg) : arg[i] # CR) => ret = arg

\* a call whose input has a CR+LF pair and a lone trailing CR
C5_Witness ==
    /\ EolScrubbed
    /\ arg = <<Ord("a"), CR, LF, Ord("b"), CR>>
    /\ ret = <<Ord("a"), LF, Ord("b"), LF>>

(***************************************************************************)
(* Properties of ScrubBadUTF8                                              *)
(***************************************************************************)
\* C6: ScrubBadUTF8 terminates on every finite byte sequence: every call,
\* once in its loop, returns.
C6_Terminates ==
    (pc = "loop" /\ fn = "ScrubBadUTF8") ~> (pc = "done" /\ fn = "ScrubBadUTF8")

\* well-formed UTF-8 (Unicode, table 3-7): s is a sequence of encodings of
\* code points
RECURSIVE ValidUTF8(_)
ValidUTF8(s) ==
    \/ Len(s) = 0
    \/ /\ s[1] < 128
       /\ ValidUTF8(Tail(s))
    \/ /\ Len(s) >= 2
       /\ s[1] \in 194..223 /\ s[2] \in 128..191
       /\ ValidUTF8(SubSeq(s, 3, Len(s)))
    \/ /\ Len(s) >= 3
       /\ \/ s[1] = 224 /\ s[2] \in 160..191
          \/ s[1] \in (225..236) \cup {238, 239} /\ s[2] \in 128..191
          \/ s[1] = 237 /\ s[2] \in 128..159
       /\ s[3] \in 128..191
       /\ ValidUTF8(SubSeq(s, 4, Len(s)))
    \/ /\ Len(s) >= 4
       /\ \/ s[1] = 240 /\ s[2] \in 144..191
          \/ s[1] \in 241..243 /\ s[2] \in 128..191
          \/ s[1] = 244 /\ s[2] \in 128..143
       /\ s[3] \in 128..191 /\ s[4] \in 128..191
       /\ ValidUTF8(SubSeq(s, 5, Len(s)))

\* C7: for every valid UTF-8 input, ScrubBadUTF8 returns a byte sequence equal
\* to its input.
C7_ValidInputReturned ==
    (pc = "loop" /\ fn = "ScrubBadUTF8" /\ ValidUTF8(arg))
        ~> (pc = "done" /\ fn = "ScrubBadUTF8" /\ ret = arg)

(***************************************************************************)
(* Properties of the line classifier                                       *)
(***************************************************************************)
Classified == pc = "done" /\ fn = "Classify"

\* the field a line goes to when the tests of SectionInput are made in the
\* opposite order (the header test, which comes before the test for a
\* current section, stays first)
SectionFieldReversed(h) ==
    IF "IsUnitHeader" \in h THEN "Header"
    ELSE IF "IsUnitStatus" \in h THEN "Status"
    ELSE IF "IsTurnHeader" \in h THEN "Turn"
    ELSE IF "IsScoutLine" \in h THEN "Scouts"
    ELSE IF "IsTribeMovement" \in h THEN "Movement"
    ELSE IF "IsTribeGoesTo" \in h THEN "GoesTo"
    ELSE IF "IsTribeFollows" \in h THEN "Follows"
    ELSE IF "IsFleetMovement" \in h THEN "Fleet"
    ELSE "none"

\* C9: no line satisfies more than one of the eight line-kind predicates, so
\* the field SectionInput assigns a line to does not depend on the order of
\* its tests.
C9_KindsExclusive ==
    Classified =>
        /\ Cardinality(holds) <= 1
        /\ field = SectionFieldReversed(holds)

\* a line that shares the first word of a unit header and of the two other
\* tribe lines and is a tribe movement line only
C9_Witness ==
    /\ Classified
    /\ arg = B(<<"t", "r", "i", "b", "e", " ", "m", "o", "v", "e", "m", "e", "n", "t", ":", "0", "9", "8", "7">>)
    /\ holds = {"IsTribeMovement"}
    /\ field = "Movement"

(***************************************************************************)
(* Properties of RemoveNonMappingLines                                     *)
(***************************************************************************)
Filtered == pc = "done" /\ fn = "RemoveNonMappingLines"

IsMappingLine(line) ==
    IsUnitHeader(line) \/ IsTurnHeader(line) \/ IsMovementLine(line) \/ IsUnitStatus(line)

\* C8: RemoveNonMappingLines returns exactly the subsequence of its input
\* lines that satisfy IsUnitHeader, IsTurnHeader, IsMovementLine or
\* IsUnitStatus, in input order; no blank line is in the result.
C8_KeepsMappingLines ==
    Filtered =>
        /\ retLines = SelectSeq(argLines, IsMappingLine)
        /\ \A i \in 1..Len(retLines) : Len(retLines[i]) # 0

\* a call that drops a blank line and keeps a header and a status line
C8_Witness ==
    /\ Filtered
    /\ argLines = <<lineTribeHeader, lineBlank, lineTribeStatus>>
    /\ retLines = <<lineTribeHeader, lineTribeStatus>>

(***************************************************************************)
(* Properties of SectionInput                                              *)
(***************************************************************************)
Sectioned == pc = "done" /\ fn = "SectionInput"

\* the positions of s where a line starts
LineStarts(s) == {i \in 1..Len(s) : i = 1 \/ s[i-1] = LF}

\* the line of s that starts at position i: the bytes up to the next newline
LineAt(s, i) ==
    LET ends == {j \in i..Len(s) : s[j] = LF}
        last == IF ends = {} THEN Len(s)
                ELSE (CHOOSE j \in ends : \A k \in ends : j <= k) - 1
    IN  SubSeq(s, i, last)

\* C10: the number of sections SectionInput returns is the number of
\* newline-separated lines of its input that satisfy IsUnitHeader.
C10_SectionPerHeader ==
    Sectioned =>
        Len(retSections) = Cardinality({i \in LineStarts(arg) : IsUnitHeader(LineAt(arg, i))})

\* an input with a status line before the first header and two headers
C10_Witness ==
    /\ Sectioned
    /\ arg = JoinLines(<<lineTribeStatus, lineTribeHeader, lineFleetHeader>>)
    /\ Len(retSections) = 2

\* the positions, among the lines of a text, of the unit headers
HeaderLines(lines) == {i \in 1..Len(lines) : IsUnitHeader(lines[i])}

\* the position of the k-th of the unit headers
NthHeader(headers, k) ==
    CHOOSE i \in headers : Cardinality({j \in headers : j <= i}) = k

\* the positions of the lines below the k-th unit header and above the next
SectionLines(lines, headers, k) ==
    LET header == NthHeader(headers, k)
    IN  {i \in 1..Len(lines) :
            /\ header < i
            /\ \A j \in headers : header < j => i < j}

\* C11: the sections are in the order their headers appear in the input: the
\* i-th section has Id = i and its Header is the i-th unit header line.
C11_SectionsInHeaderOrder ==
    Sectioned =>
        LET lines == SplitLines(arg)
            headers == HeaderLines(lines)
        IN  \A k \in 1..Len(retSections) :
                /\ k <= Cardinality(headers)
                /\ retSections[k].Id = k
                /\ retSections[k].Header = lines[NthHeader(headers, k)]

\* a fleet header above a tribe header, with a line between them
C11_Witness ==
    /\ Sectioned
    /\ arg = JoinLines(<<lineFleetHeader, lineScout1, lineTribeHeader>>)
    /\ Len(retSections) = 2
    /\ retSections[1].Id = 1 /\ retSections[1].Header = lineFleetHeader
    /\ retSections[2].Id = 2 /\ retSections[2].Header = lineTribeHeader

\* the last of the lines at the positions S, and no line when there is none
LastLine(lines, S) ==
    IF S = {} THEN <<>>
    ELSE lines[CHOOSE i \in S : \A j \in S : j <= i]

\* the sections that have a header line in the text
Headed(headers) == DOMAIN retSections \cap 1..Cardinality(headers)

SectionText(lines, headers, k) ==
    LET header == NthHeader(headers, k)
        later == {j \in headers : header < j}
        next == IF later = {} THEN Len(lines) + 1
                ELSE CHOOSE j \in later : \A h \in later : j <= h
    IN  SubSeq(lines, header + 1, next - 1)

\* C13: the Scouts of a section are all the scout lines between the section's
\* header and the next unit header, in input order, duplicates kept.
C13_ScoutsAccumulate ==
    Sectioned =>
        LET lines == SplitLines(arg)
            headers == HeaderLines(lines)
        IN  \A k \in Headed(headers) :
                retSections[k].Scouts =
                    SelectSeq(SectionText(lines, headers, k), IsScoutLine)

\* a section with the same scout line twice
C13_Witness ==
    /\ Sectioned
    /\ arg = JoinLines(<<lineTribeHeader, lineScout2, lineScout2>>)
    /\ Len(retSections) = 1
    /\ retSections[1].Scouts = <<lineScout2, lineScout2>>

\* the line is classified: one of the eight predicates holds for it
HasKind(line) == Holding(line) # {}

\* the lines stored in the fields of a section
StoredLines(section) ==
    {section.Header, section.Turn, section.Movement, section.Follows,
     section.GoesTo, section.Fleet, section.Status}
        \cup {section.Scouts[i] : i \in 1..Len(section.Scouts)}

\* the lines of a text from its first unit header on
FromFirstHeader(lines, headers) ==
    IF headers = {} THEN <<>>
    ELSE SubSeq(lines, CHOOSE i \in headers : \A j \in headers : i <= j, Len(lines))

\* C14: a classified line above the first unit header, and an unclassified
\* or blank line anywhere, is stored in no field of any section: every stored
\* line is classified, and the sections are those of the input without the
\* lines above the first header and without the unclassified and blank lines.
C14_DroppedLinesStoredNowhere ==
    Sectioned =>
        LET lines == SplitLines(arg)
            headers == HeaderLines(lines)
            kept == SelectSeq(FromFirstHeader(lines, headers), HasKind)
        IN  /\ \A k \in 1..Len(retSections) :
                   \A line \in StoredLines(retSections[k]) :
                       Len(line) # 0 => HasKind(line)
            /\ headers = {} => retSections = <<>>
            /\ retSections = SectionInput(JoinLines(kept))

\* a status line above the first header and a line of no kind below it: the
\* section has its header and nothing else
C14_Witness ==
    /\ Sectioned
    /\ arg = JoinLines(<<lineTribeStatus, lineTribeHeader, lineOther>>)
    /\ retSections = <<NewSection(1, lineTribeHeader)>>

\* the text is a report of units: unit headers, each with a status line below
IsUnitsReport(lines) ==
    /\ Len(lines) % 2 = 0
    /\ \A i \in 1..Len(lines) :
          IF i % 2 = 1 THEN IsUnitHeader(lines[i]) ELSE IsUnitStatus(lines[i])

ParsedSections == pc = "done" /\ fn = "ParseSections"
ParsedDocx == pc = "done" /\ fn = "ParseDocx"
ParsedText == pc = "done" /\ fn = "ParseText"

\* C16: ParseSections on a buffer of length zero returns ErrEmptyInput and no
\* sections, and calls neither ParseDocx nor ParseText.
C16_EmptyInputRejected ==
    (ParsedSections /\ Len(arg) = 0) =>
        /\ err = ErrEmptyInput
        /\ retSections = <<>>
        /\ \A i \in 1..Len(calls) : calls[i] \notin {"ParseDocx", "ParseText"}

\* the call of ParseSections with the empty buffer
C16_Witness ==
    /\ ParsedSections
    /\ arg = <<>>
    /\ err = ErrEmptyInput
    /\ calls = <<>>

\* the bytes ParseText takes as plain ASCII
PlainASCII == 1..127

\* C17: ParseText returns ErrUnknownFormat when one of the first three bytes
\* of its input is not plain ASCII, and returns no error for every input
\* whose first three bytes are plain ASCII.
C17_LeadingASCIIDecides ==
    ParsedText =>
        /\ (\E i \in 1..3 : i <= Len(arg) /\ arg[i] \notin PlainASCII)
               => err = ErrUnknownFormat
        /\ (Len(arg) >= 3 /\ \A i \in 1..3 : arg[i] \in PlainASCII)
               => err = Nil

\* the container was recognised: ParseDocx went on to read its text
Recognised == \E i \in 1..Len(calls) : calls[i] = "docx.ReadBuffer"

\* C18: an entry point returns ErrEmptyInput, ErrUnknownFormat or nil, and
\* every error produced inside it reaches the caller: the error returned is
\* the error of every call inside that failed, but for the ErrUnknownFormat
\* by which ParseDocx says that the buffer is no container.
C18_ErrorsReachCaller ==
    (ParsedSections \/ ParsedDocx \/ ParsedText) =>
        /\ err \in {Nil, ErrEmptyInput, ErrUnknownFormat}
        /\ \A i \in 1..Len(errs) :
               \/ errs[i].err = Nil
               \/ errs[i].err = err
               \/ errs[i].fn = "ParseDocx" /\ ~Recognised

\* the lines of a section that hold steps
StepLines(section) ==
    {section.Movement, section.Fleet, section.Status}
        \cup {section.Scouts[n] : n \in 1..Len(section.Scouts)}

\* the positions the lists that begin at the positions heads can end at, the
\* elements of a list being matches of element
RECURSIVE ListEnds(_, _, _)
ListEnds(line, heads, element) ==
    LET more == heads \cup MatchEnds(line, heads, element)
    IN  IF more = heads THEN heads ELSE ListEnds(line, more, element)

directionCodes == {B(<<"n">>), B(<<"s">>), B(<<"n", "e">>), B(<<"n", "w">>), B(<<"s", "e">>), B(<<"s", "w">>)}

\* the positions after a direction code that a comma joins to a list of
\* direction codes behind a comma and an edge code
EdgeListCommas(line) ==
    MatchEnds(line,
              ListEnds(line, MatchEnds(line, 1..Len(line), edgeCodePattern),
                       <<Lit({<<SP>>}), Lit(directionCodes), WordBoundary>>),
              <<Lit({<<COMMA>>}), Lit(directionCodes), WordBoundary>>)

\* the positions after a unit ID that a comma joins to a list of unit IDs
\* behind a comma
UnitListCommas(line) ==
    MatchEnds(line,
              ListEnds(line, MatchEnds(line, 1..Len(line), unitIDPattern),
                       <<Lit({<<SP>>}), Rep(Digit, 4, 4), UnitSuffix, WordBoundary>>),
              <<Lit({<<COMMA>>}), Rep(Digit, 4, 4), UnitSuffix, WordBoundary>>)

\* C19: after ParseText, in the Movement, Fleet, Scouts and Status fields of
\* every section no comma is left between an edge code behind a comma and a
\* direction code after it, between two direction codes of that list, or
\* between two unit IDs of a list of unit IDs behind a comma.
C19_NoCommaInsideList ==
    (ParsedText /\ err = Nil) =>
        \A k \in 1..Len(retSections) :
            \A line \in StepLines(retSections[k]) :
                EdgeListCommas(line) = {} /\ UnitListCommas(line) = {}

\* the stage of the pipeline a function belongs to, 0 for a function of none
StageOf(name) ==
    IF name \in {"ScrubEOL", "ScrubBadUTF8"} THEN 1
    ELSE IF name = "CompressSpaces" THEN 2
    ELSE IF name = "SectionInput" THEN 3
    ELSE IF name \in {"scrubMovementLine", "scrubFollowsLine", "scrubGoesToLine",
                      "scrubFleetLine", "scrubScoutLine", "scrubStatusLine"} THEN 4
    ELSE 0

\* C20: ParseText passes its input through the byte scrubbers (line endings
\* and invalid encodings), then CompressSpaces, then SectionInput, then the
\* normalization of the fields: the functions are called in this order, and
\* the sections are those of a text whose line endings were repaired first,
\* so that no field holds a carriage return.
C20_StagesInOrder ==
    (ParsedText /\ err = Nil) =>
        /\ \E i \in 1..Len(calls) : calls[i] = "ScrubEOL"
        /\ \E i \in 1..Len(calls) : calls[i] = "ScrubBadUTF8"
        /\ \A i, j \in 1..Len(calls) :
               (i < j /\ StageOf(calls[i]) # 0 /\ StageOf(calls[j]) # 0)
                   => StageOf(calls[i]) <= StageOf(calls[j])
        /\ \A k \in 1..Len(retSections) :
               \A line \in StoredLines(retSections[k]) :
                   \A i \in 1..Len(line) : line[i] # CR

(***************************************************************************)
(* Properties of the line scrubbers                                        *)
(***************************************************************************)
Scrubbed == pc = "done" /\ fn \in ScrubFunctions

\* byte b directly followed by byte c in line
Adjacent(line, b, c) == \E j \in 1..(Len(line) - 1) : line[j] = b /\ line[j + 1] = c

\* C21: for every input line, the output of scrubMovementLine, scrubScoutLine,
\* scrubStatusLine, scrubFleetLine and PreProcessMovementLine contains no
\* backslash immediately followed by a dash
C21_NoBackslashDash == Scrubbed => ~Adjacent(ret, BACKSLASH, DASH)

\* C22: for every input line, the output of the five scrubbers contains no
\* two adjacent backslashes and no two adjacent commas
C22_NoRuns ==
    Scrubbed => /\ ~Adjacent(ret, BACKSLASH, BACKSLASH)
                /\ ~Adjacent(ret, COMMA, COMMA)

\* a line with a run of commas or of backslashes was scrubbed, and one
\* byte of the run is left
C22_Witness ==
    /\ Scrubbed
    /\ \/ Adjacent(arg, COMMA, COMMA) /\ \E j \in 1..Len(ret) : ret[j] = COMMA
       \/ Adjacent(arg, BACKSLASH, BACKSLASH) /\ \E j \in 1..Len(ret) : ret[j] = BACKSLASH

\* the scrubbers of the section fields
FieldScrubbers ==
    {"scrubMovementLine", "scrubScoutLine", "scrubStatusLine", "scrubFleetLine"}

\* C23: for every input line, the output of scrubMovementLine, scrubScoutLine,
\* scrubStatusLine and scrubFleetLine contains no comma immediately before or
\* immediately after a backslash, also where a pass put a comma before a
\* unit ID
C23_NoCommaAtBackslash ==
    (Scrubbed /\ fn \in FieldScrubbers)
        => /\ ~Adjacent(ret, COMMA, BACKSLASH)
           /\ ~Adjacent(ret, BACKSLASH, COMMA)

\* a line with a comma before a backslash that stands before a unit ID was
\* scrubbed: a comma stands before the unit ID in the output
C23_Witness ==
    /\ Scrubbed /\ fn \in FieldScrubbers
    /\ Adjacent(arg, COMMA, BACKSLASH)
    /\ \E j \in 1..(Len(arg) - 1) : arg[j] = BACKSLASH /\ arg[j + 1] \in Digit
    /\ \E j \in 1..(Len(ret) - 1) : ret[j] = COMMA /\ ret[j + 1] \in Digit

\* C24: for every input line, the output of the five scrubbers does not end
\* with a backslash
C24_NoTrailingBackslash ==
    Scrubbed => (Len(ret) = 0 \/ ret[Len(ret)] # BACKSLASH)

\* a line that ends with a backslash was scrubbed, and something is left
C24_Witness ==
    /\ Scrubbed
    /\ Len(arg) # 0 /\ arg[Len(arg)] = BACKSLASH
    /\ Len(ret) # 0

(***************************************************************************)
(* Properties of scrubStepResults                                          *)
(***************************************************************************)
InStepResults == fn = "scrubStepResults" /\ pc \in {"results", "directions", "units"}
StepResultsDone == fn = "scrubStepResults" /\ pc = "done"

\* the bytes of line that differ from those of the argument are spaces, and
\* stand where the argument had a comma or white space, behind its first
\* comma
OnlySeparatorsChanged(line) ==
    /\ Len(line) = Len(arg)
    /\ \A j \in 1..Len(arg) :
          line[j] # arg[j] => /\ arg[j] \in {COMMA} \cup Whitespace
                              /\ line[j] = SP
                              /\ \E k \in 1..(j - 1) : arg[k] = COMMA

\* C25: scrubStepResults terminates on every line and returns a line of the
\* same length that differs from its input only at positions where the input
\* had a comma (or white space) and the output has a space; every other byte,
\* and every byte before the first comma, is unchanged
C25_StepResultsFrame ==
    /\ [](InStepResults => OnlySeparatorsChanged(lineBuf))
    /\ [](StepResultsDone => OnlySeparatorsChanged(ret) /\ ret = scrubStepResults(arg))
    /\ (InStepResults ~> StepResultsDone)

\* a line with a list behind its first comma was given to scrubStepResults,
\* which returned it with a comma of the list turned into a space
C25_Witness ==
    /\ StepResultsDone
    /\ \E j \in 1..Len(arg) : arg[j] = COMMA /\ ret[j] = SP

(***************************************************************************)
(* Properties of the normalization loop of ParseText                       *)
(***************************************************************************)
\* the fields of a section that hold one line
LineFields == {"Header", "Turn", "Movement", "Follows", "GoesTo", "Fleet", "Status"}

\* section after is section before with its lines normalized: the same Id,
\* Header and Turn, as many scout lines, and no line where there was none
SameSection(before, after) ==
    /\ after.Id = before.Id
    /\ after.Header = before.Header
    /\ after.Turn = before.Turn
    /\ Len(after.Scouts) = Len(before.Scouts)
    /\ \A f \in LineFields : Len(before[f]) = 0 => Len(after[f]) = 0
    /\ \A n \in 1..Len(before.Scouts) :
          Len(before.Scouts[n]) = 0 => Len(after.Scouts[n]) = 0

SameSections(before, after) ==
    /\ Len(after) = Len(before)
    /\ \A k \in 1..Len(before) : SameSection(before[k], after[k])

OneOf(line, lines) == \E i \in 1..Len(lines) : lines[i] = line

\* C27: SectionInput gives the same sections for an input as for the same
\* input with its lines first filtered by RemoveNonMappingLines and rejoined
\* with newlines: every line stored in a section is one that
\* RemoveNonMappingLines keeps
C27_FilterChangesNothing ==
    Sectioned =>
        LET kept == RemoveNonMappingLines(SplitLines(arg))
        IN  /\ retSections = SectionInput(JoinLines(kept))
            /\ \A k \in 1..Len(retSections) :
                   \A line \in StoredLines(retSections[k]) :
                       Len(line) # 0 => OneOf(line, kept)

\* the filter drops a line of the input, and SectionInput has stored a status
\* line in a section
C27_Witness ==
    /\ Sectioned
    /\ Len(RemoveNonMappingLines(SplitLines(arg))) < Len(SplitLines(arg))
    /\ \E k \in 1..Len(retSections) : Len(retSections[k].Status) # 0

(***************************************************************************)
(* The text fallback of ParseSections                                      *)
(***************************************************************************)
\* ParseSections called ParseText on its input: the last call that returned
\* inside it is that of ParseText, after the return of ParseDocx
FallbackRan ==
    /\ Len(errs) >= 2
    /\ errs[Len(errs)].fn = "ParseText"
    /\ errs[Len(errs) - 1].fn = "ParseDocx"

\* C28: when ParseDocx recognizes the input as a Word container, ParseSections
\* never hands the raw container bytes to ParseText: the text fallback runs
\* only when the input was not recognized as a Word container, whatever error
\* the parse of the extracted text returns
C28_FallbackOnlyForText ==
    (ParsedSections /\ FallbackRan) => DetectWordDocType(arg) # "Docx"

(***************************************************************************)
(* ParseText and the case of its input                                     *)
(***************************************************************************)
\* result is what the call in the variables returned
SameResult(result) == result.err = err /\ result.sections = retSections

\* C29: ParseText lower-cases the whole input before classification: for
\* every accepted input x, ParseText(x) returns the same sections as ParseText
\* applied to the lower-cased x
C29_CaseInsensitive ==
    (ParsedText /\ err = Nil) => SameResult(ParseText(ToLower(arg)))

\* ParseText was given a text with upper case letters and found a section
\* with a line in it
C29_Witness ==
    /\ ParsedText /\ err = Nil
    /\ ToLower(arg) # arg
    /\ \E k \in 1..Len(retSections) : Len(retSections[k].Follows) # 0

(***************************************************************************)
(* Properties of parseElementHeader                                        *)
(***************************************************************************)
HeaderCalled == fn = "parseElementHeader"

\* the first field of the header is a unit designation
ValidUnit(header) ==
    \E k \in 1..Len(rxUnits) :
        FindSubmatch(rxUnits[k], TrimSpace(SplitFields(header)[1])) # <<>>

\* the child of the node returned that has kind
Child(kind) == CHOOSE child \in {node.Children[k] : k \in 1..Len(node.Children)} :
                   child.Kind = kind

\* the kinds of the children for the fields 2, 3 and 4 of a header
FieldKinds == <<"name", "current-hex", "previous-hex">>

\* C30: parseElementHeader returns a node tree for every header line without
\* failing: for a header whose first comma-separated field is a valid unit
\* designation the element-id child carries the unit identifier and no error,
\* and for a header with fewer than four comma-separated fields the missing
\* name, current-hex or previous-hex child carries ErrMissingField
C30_HeaderTree ==
    HeaderCalled =>
        /\ pc = "done"
        /\ node.Kind = "element-header"
        /\ Len(node.Children) >= 4
        /\ ValidUnit(arg) =>
               /\ Child("element-id").Error = Nil
               /\ Len(Child("element-id").Value) # 0
        /\ \A k \in 1..3 :
               Len(SplitFields(arg)) < k + 1 => Child(FieldKinds[k]).Error = ErrMissingField

====
